---- MODULE Spec2Model ----
(***************************************************************************)
(* A model of jitx_dxf: the path assembler (path_assembler.py) and the     *)
(* entity classifier (dxf_reader.py), and their geometry functions.        *)
(*                                                                         *)
(* Coordinates are integers counting 1/Unit of a millimetre, so that every *)
(* coordinate, every tolerance and every product the code rounds is an     *)
(* exact binary fraction and Python's round() (round half to even) is      *)
(* modelled exactly.  Sequences are 1-based: segment index i of the model  *)
(* is index i-1 of the Python list.                                        *)
(***************************************************************************)
EXTENDS Integers, Sequences, FiniteSets, TLC

\* Coordinate resolution: a coordinate k stands for k/Unit millimetres.
Unit == 8
\* Largest number of segments handed to assemble_closed_paths.
MaxSegs == 4

VARIABLES
    pc,             \* position in assemble_closed_paths / _walk_loop
    segments,       \* the segment list built from the inputs
    tolU,           \* the tolerance argument, in 1/Unit mm
    used,           \* used[i]: segment i is consumed
    paths,          \* the ClosedPaths appended so far
    start_idx,      \* the outer loop's index
    chain,          \* _walk_loop: the segments accumulated in this attempt
    chain_idx,      \* history: the index each chain element was taken from
    current_key,    \* _walk_loop: grid cell of the walk's current point
    loop_start_key, \* _walk_loop: grid cell the loop must return to
    step,           \* _walk_loop: iterations of the for loop done
    used0,          \* history: used as it was when this attempt began
    last,           \* history: how the latest attempt ended
    attempts,       \* history: the start indices _walk_loop was called with
    ticks           \* history: loop iterations executed so far

asmVars == <<pc, segments, tolU, used, paths, start_idx, chain, chain_idx,
             current_key, loop_start_key, step, used0, last,
             attempts, ticks>>

VARIABLES
    cpc,                 \* position in classify_entities and the classifier called
    all_paths,           \* the closed paths handed to the classifier
    circles,             \* the circles handed to the classifier
    layer_map,           \* the layer_map argument: None (given = FALSE) or a dict
    ci,                  \* the index of the loop running
    outline_candidates,  \* indices into all_paths
    unresolved_paths,    \* indices into all_paths
    unresolved_circles,  \* indices into circles
    result               \* the ClassifiedEntities; its lists hold indices

clsVars == <<cpc, all_paths, circles, layer_map, ci, outline_candidates,
             unresolved_paths, unresolved_circles, result>>

VARIABLES
    fpc,    \* the function being applied, or "idle", or "done"
    arg,    \* the arguments it is applied to
    out     \* the value it returned

fnVars == <<fpc, arg, out>>

vars == <<asmVars, clsVars, fnVars>>

-----------------------------------------------------------------------------
(* Numbers *)

Abs(x) == IF x < 0 THEN -x ELSE x

\* Python round(n/d) for d > 0: to the nearest integer, ties to even.
RoundHalfEven(n, d) ==
    LET q == n \div d
        r == n % d
    IN  IF 2 * r < d THEN q
        ELSE IF 2 * r > d THEN q + 1
        ELSE IF q % 2 = 0 THEN q ELSE q + 1

\* grid_inv = round(1.0 / tolerance)
GridInvOf(t) == RoundHalfEven(Unit, t)

grid_inv == GridInvOf(tolU)

\* A mutant of _point_key: truncation instead of rounding.
PointKeyTrunc(p, g) == <<(p[1] * g) \div Unit, (p[2] * g) \div Unit>>

\* _point_key(p, grid_inv) = (round(p.x * grid_inv), round(p.y * grid_inv))
PointKey(p, g) == <<RoundHalfEven(p[1] * g, Unit), RoundHalfEven(p[2] * g, Unit)>>

\* sin and cos of a whole number of quarter turns, given in degrees.
SinDeg(d) == CASE d % 360 = 0 -> 0 [] d % 360 = 90 -> 1
               [] d % 360 = 180 -> 0 [] d % 360 = 270 -> -1

CosDeg(d) == SinDeg(d + 90)

-----------------------------------------------------------------------------
(* Segments *)

LinePathSegment(s, e) == [start |-> s, end |-> e]

\* A mutant of _flip_segment: the segment is returned as it is.
FlipSegmentNoop(seg) == seg

\* An arc of a circle; angles are whole degrees, the radius counts 1/Unit mm.
ArcPathSegment(c, r, sa, ea, sp, ep) ==
    [center |-> c, radius |-> r, start_angle |-> sa, end_angle |-> ea,
     start_point |-> sp, end_point |-> ep]

\* isinstance(seg, ArcPathSegment)
IsArc(seg) == "radius" \in DOMAIN seg

\* _segment_endpoints: the start and the end point of a line or an arc.
SegStart(seg) == IF IsArc(seg) THEN seg.start_point ELSE seg.start

SegEnd(seg) == IF IsArc(seg) THEN seg.end_point ELSE seg.end

\* _flip_segment: a new segment with start and end exchanged; an arc keeps
\* its centre and radius and exchanges its angles and its points.
FlipSegment(seg) ==
    IF IsArc(seg)
    THEN ArcPathSegment(seg.center, seg.radius, seg.end_angle, seg.start_angle,
                        seg.end_point, seg.start_point)
    ELSE [start |-> seg.end, end |-> seg.start]

\* The adjacency lists are filled segment by segment, each segment's start
\* before its end: entry number 2i-1 is (i, True), entry number 2i is
\* (i, False), and every list keeps its entries in this order.
EntrySeg(k) == (k + 1) \div 2

EntryIsStart(k) == k % 2 = 1

EntryPoint(segs, k) ==
    IF EntryIsStart(k) THEN SegStart(segs[EntrySeg(k)]) ELSE SegEnd(segs[EntrySeg(k)])

\* adjacency[key]: the numbers of the entries appended under key.
Adjacency(segs, g, key) ==
    {k \in 1..(2 * Len(segs)) : PointKey(EntryPoint(segs, k), g) = key}

Lowest(S) == CHOOSE k \in S : \A m \in S : k <= m

\* A mutant of _find_next: the used markers are ignored.
FindNextAny(segs, g, u, key) ==
    LET adj == Adjacency(segs, g, key)
    IN  IF adj = {} THEN <<0, FALSE>>
        ELSE <<EntrySeg(Lowest(adj)), EntryIsStart(Lowest(adj))>>

\* _find_next: the first pair of adjacency[key] whose segment is unused;
\* <<0, FALSE>> stands for None.
FindNext(segs, g, u, key) ==
    LET free == {k \in Adjacency(segs, g, key) : ~u[EntrySeg(k)]}
    IN  IF free = {} THEN <<0, FALSE>>
        ELSE <<EntrySeg(Lowest(free)), EntryIsStart(Lowest(free))>>

\* list.index(s): the first index whose element equals s; 0 stands for the
\* ValueError raised when there is none.
IndexOf(segs, s) ==
    LET hits == {i \in 1..Len(segs) : segs[i] = s}
    IN  IF hits = {} THEN 0 ELSE CHOOSE i \in hits : \A j \in hits : i <= j

\* The dead-end loop "for s in chain: used[segments.index(s)] = False",
\* run over chain[k..]; it stops at the first element index() does not find.
RECURSIVE Unmark(_, _, _, _)
Unmark(segs, ch, u, k) ==
    IF k > Len(ch) THEN [used |-> u, raised |-> FALSE]
    ELSE LET idx == IndexOf(segs, ch[k])
         IN  IF idx = 0 THEN [used |-> u, raised |-> TRUE]
             ELSE Unmark(segs, ch, [u EXCEPT ![idx] = FALSE], k + 1)
-----------------------------------------------------------------------------
(* assemble_closed_paths and _walk_loop *)

AsmFields(segs, t) ==
    /\ segments = segs
    /\ tolU = t
    /\ used = [i \in 1..Len(segs) |-> FALSE]
    /\ paths = <<>>
    /\ start_idx = 1
    /\ chain = <<>>
    /\ chain_idx = <<>>
    /\ current_key = <<0, 0>>
    /\ loop_start_key = <<0, 0>>
    /\ step = 0
    /\ used0 = [i \in 1..Len(segs) |-> FALSE]
    /\ last = "none"
    /\ attempts = <<>>
    /\ ticks = 0

\* ClassifiedEntities(): no outline (0 stands for None), every list empty.
EmptyResult ==
    [outline |-> 0, cutouts |-> <<>>, holes |-> <<>>, keepouts |-> <<>>,
     soldermask_openings |-> <<>>, unclassified_paths |-> <<>>,
     unclassified_circles |-> <<>>]

\* The layer_map argument left at its default, None.
NoMap == [given |-> FALSE, entries |-> <<>>]

\* A dict given as the layer_map argument.
Dict(f) == [given |-> TRUE, entries |-> f]

\* The classifier is not running.
ClsIdle ==
    /\ cpc = "idle"
    /\ all_paths = <<>>
    /\ circles = <<>>
    /\ layer_map = NoMap
    /\ ci = 1
    /\ outline_candidates = <<>>
    /\ unresolved_paths = <<>>
    /\ unresolved_circles = <<>>
    /\ result = EmptyResult

\* No geometry function is being applied.
FnIdle == fpc = "idle" /\ arg = <<>> /\ out = <<>>

\* After "used = [False] * len(segments); paths = []", before the outer loop.
AsmStart(segs, t) == pc = "outer" /\ AsmFields(segs, t) /\ ClsIdle /\ FnIdle

\* A mutant of the outer loop: "continue" without moving to the next index.
SkipStuck ==
    /\ pc = "outer"
    /\ start_idx <= Len(segments)
    /\ used[start_idx]
    /\ last' = "skip"
    /\ ticks' = ticks + 1
    /\ UNCHANGED <<pc, segments, tolU, used, paths, start_idx, chain, chain_idx,
                   current_key, loop_start_key, step, used0, attempts>>
    /\ UNCHANGED <<clsVars, fnVars>>

\* "if used[start_idx]: continue"
Skip ==
    /\ pc = "outer"
    /\ start_idx <= Len(segments)
    /\ used[start_idx]
    /\ start_idx' = start_idx + 1
    /\ last' = "skip"
    /\ ticks' = ticks + 1
    /\ UNCHANGED <<pc, segments, tolU, used, paths, chain, chain_idx,
                   current_key, loop_start_key, step, used0, attempts>>
    /\ UNCHANGED <<clsVars, fnVars>>

\* A mutant of the outer loop: a consumed segment is tried as a start again.
BeginWalkUsed ==
    /\ pc = "outer"
    /\ start_idx <= Len(segments)
    /\ LET seg == segments[start_idx]
       IN  /\ loop_start_key' = PointKey(SegStart(seg), grid_inv)
           /\ chain' = <<seg>>
           /\ chain_idx' = <<start_idx>>
           /\ used' = [used EXCEPT ![start_idx] = TRUE]
           /\ current_key' = PointKey(SegEnd(seg), grid_inv)
    /\ step' = 0
    /\ used0' = used
    /\ pc' = "walk"
    /\ last' = "begin"
    /\ attempts' = Append(attempts, start_idx)
    /\ ticks' = ticks + 1
    /\ UNCHANGED <<segments, tolU, paths, start_idx>>
    /\ UNCHANGED <<clsVars, fnVars>>

\* The call of _walk_loop up to its for loop.
BeginWalk ==
    /\ pc = "outer"
    /\ start_idx <= Len(segments)
    /\ ~used[start_idx]
    /\ LET seg == segments[start_idx]
       IN  /\ loop_start_key' = PointKey(SegStart(seg), grid_inv)
           /\ chain' = <<seg>>
           /\ chain_idx' = <<start_idx>>
           /\ used' = [used EXCEPT ![start_idx] = TRUE]
           /\ current_key' = PointKey(SegEnd(seg), grid_inv)
    /\ step' = 0
    /\ used0' = used
    /\ pc' = "walk"
    /\ last' = "begin"
    /\ attempts' = Append(attempts, start_idx)
    /\ ticks' = ticks + 1
    /\ UNCHANGED <<segments, tolU, paths, start_idx>>
    /\ UNCHANGED <<clsVars, fnVars>>

\* A mutant of the step bound: one step fewer than there are segments.
MaxStepsShort == Len(segments) - 1

\* "max_steps = len(segments)"
max_steps == Len(segments)

Closes == current_key = loop_start_key /\ Len(chain) > 1

DeadEnd == ~Closes /\ FindNext(segments, grid_inv, used, current_key)[1] = 0

\* One iteration of "for _ in range(max_steps)", or the exit below the loop,
\* and what assemble_closed_paths does with the value returned.
WalkStep ==
    /\ pc = "walk"
    /\ IF step >= max_steps
       THEN \* return None: exceeded max steps
            /\ pc' = "outer"
            /\ start_idx' = start_idx + 1
            /\ last' = "exceeded"
            /\ UNCHANGED <<used, paths, chain, chain_idx, current_key, step>>
       ELSE IF Closes
       THEN \* return chain; paths.append(ClosedPath(segments=loop))
            /\ paths' = Append(paths, [segments |-> chain, idx |-> chain_idx])
            /\ pc' = "outer"
            /\ start_idx' = start_idx + 1
            /\ last' = "closed"
            /\ UNCHANGED <<used, chain, chain_idx, current_key, step>>
       ELSE IF DeadEnd
       THEN \* the chain's segments are marked unused again; return None
            LET r == Unmark(segments, chain, used, 1)
            IN  /\ used' = r.used
                /\ pc' = IF r.raised THEN "raised" ELSE "outer"
                /\ start_idx' = IF r.raised THEN start_idx ELSE start_idx + 1
                /\ last' = IF r.raised THEN "raised" ELSE "deadend"
                /\ UNCHANGED <<paths, chain, chain_idx, current_key, step>>
       ELSE LET nxt == FindNext(segments, grid_inv, used, current_key)
                seg == IF nxt[2] THEN segments[nxt[1]]
                                 ELSE FlipSegment(segments[nxt[1]])
            IN  /\ used' = [used EXCEPT ![nxt[1]] = TRUE]
                /\ chain' = Append(chain, seg)
                /\ chain_idx' = Append(chain_idx, nxt[1])
                /\ current_key' = PointKey(SegEnd(seg), grid_inv)
                /\ step' = step + 1
                /\ last' = "advance"
                /\ UNCHANGED <<pc, paths, start_idx>>
    /\ ticks' = ticks + 1
    /\ UNCHANGED <<segments, tolU, loop_start_key, used0, attempts>>
    /\ UNCHANGED <<clsVars, fnVars>>

\* "return paths" (also the early "return []" for an empty segment list).
Finish ==
    /\ pc = "outer"
    /\ start_idx > Len(segments)
    /\ pc' = "done"
    /\ last' = "return"
    /\ UNCHANGED <<segments, tolU, used, paths, start_idx, chain, chain_idx,
                   current_key, loop_start_key, step, used0, attempts, ticks>>
    /\ UNCHANGED <<clsVars, fnVars>>

AsmNext == Skip \/ BeginWalk \/ WalkStep \/ Finish

-----------------------------------------------------------------------------
(* Inputs of the assembler *)

\* tolerance = 1.0 mm, so grid_inv = 1
TolOne == Unit

\* Three points in three different grid cells at tolerance 1.0 mm.
AsmPoints == {<<0, 0>>, <<Unit + 3, 0>>, <<4, Unit>>}

AsmSegs == {LinePathSegment(s, e) : s \in AsmPoints, e \in AsmPoints}

SeqsUpTo(S, n) == UNION {[1..k -> S] : k \in 0..n}

AsmLongSegs == {s \in AsmSegs : s.start # s.end}

\* Every list of at most MaxSegs lines over AsmPoints (open chains, branching
\* vertices, duplicated and zero-length segments included), and every list of
\* MaxSegs + 1 lines of non-zero length.
AsmInit ==
    \/ \E segs \in SeqsUpTo(AsmSegs, MaxSegs) : AsmStart(segs, TolOne)
    \/ \E segs \in [1..(MaxSegs + 1) -> AsmLongSegs] : AsmStart(segs, TolOne)

SpecAsm == AsmInit /\ [][AsmNext]_vars

-----------------------------------------------------------------------------
(* Properties of the assembler *)

Returned == pc = "done"

\* The call is over: it returned its paths or it raised.
Ended == pc \in {"done", "raised"}

PathIdxSet(p) == {p.idx[k] : k \in 1..Len(p.idx)}

RECURSIVE TotalLen(_, _)
TotalLen(ps, k) == IF k = 0 THEN 0 ELSE Len(ps[k].segments) + TotalLen(ps, k - 1)

\* C2: every input segment index is contained in at most one returned
\* ClosedPath (the paths are pairwise disjoint and each takes an index once),
\* and the paths together hold no more segments than the input has.
C2_PathsDisjoint ==
    Returned =>
        /\ \A a, b \in 1..Len(paths) :
               a # b => PathIdxSet(paths[a]) \cap PathIdxSet(paths[b]) = {}
        /\ \A a \in 1..Len(paths) :
               Cardinality(PathIdxSet(paths[a])) = Len(paths[a].idx)
        /\ TotalLen(paths, Len(paths)) <= Len(segments)

\* C3: assemble_closed_paths raises no exception, whatever the input bag.
C3_NoException == pc # "raised"

SameCell(p, q) == PointKey(p, grid_inv) = PointKey(q, grid_inv)

WellFormedPath(p) ==
    LET n == Len(p.segments)
    IN  /\ n >= 2
        /\ \A k \in 1..(n - 1) : SameCell(p.segments[k].end, p.segments[k + 1].start)
        /\ SameCell(p.segments[n].end, p.segments[1].start)

\* C4: every ClosedPath returned has at least 2 segments, each segment ends
\* in the grid cell where the next one starts, and the last one ends in the
\* grid cell where the first one starts.
C4_PathsClosed == \A a \in 1..Len(paths) : WellFormedPath(paths[a])

\* A returned path in which the walk reversed a segment.
C4_Witness ==
    /\ Returned
    /\ \E a \in 1..Len(paths) :
           /\ Len(paths[a].segments) >= 3
           /\ \E k \in 1..Len(paths[a].segments) :
                  paths[a].segments[k] # segments[paths[a].idx[k]]

\* C6: the assembler terminates: until it returns or raises it is at a
\* position from which a step is taken (inside a walk, or in the outer loop
\* with an index to try or none left), the loop iterations it executes are
\* bounded by the input size, a
\* walk never does more than len(segments) steps, and no segment index is
\* attempted as a loop start twice.
C6_Terminates ==
    /\ step <= Len(segments)
    /\ ticks <= Len(segments) * (Len(segments) + 1)
    /\ \A a, b \in 1..Len(attempts) : a # b => attempts[a] # attempts[b]
    /\ pc \in {"done", "raised"} \/ pc = "walk"
       \/ (pc = "outer" /\ start_idx \in 1..(Len(segments) + 1))

\* A full input was worked through: a dead end, then a loop, then the return.
C6_Witness ==
    /\ Returned
    /\ Len(segments) = 4
    /\ Len(paths) = 1
    /\ \E i \in 1..Len(segments) : ~used[i]

-----------------------------------------------------------------------------
(* Closed figures as inputs *)

\* Largest number of segments of the figures handed over together.
MaxFigSegs == 4
\* Largest offset, in 1/Unit mm, by which a joint of a loop is off.
MaxOff == 1

\* The corners of a convex hexagon, each in a grid cell of its own.
Ring == << <<Unit, 0>>, <<3 * Unit, 0>>, <<4 * Unit, 2 * Unit>>,
           <<3 * Unit, 4 * Unit>>, <<Unit, 4 * Unit>>, <<0, 2 * Unit>>,
           <<0, Unit>> >>

Shift(p, dx) == <<p[1] + dx, p[2]>>

\* The k edges of the polygon on the first k corners, moved by dx along x.
FigEdges(k, dx) ==
    [i \in 1..k |-> LinePathSegment(Shift(Ring[i], dx), Shift(Ring[(i % k) + 1], dx))]

Perms(n) == {f \in [1..n -> 1..n] : \A a, b \in 1..n : a # b => f[a] # f[b]}

\* The edges in the order perm, edge i reversed where flips[i].
Shuffled(edges, perm, flips) ==
    [i \in 1..Len(edges) |->
        IF flips[i] THEN FlipSegment(edges[perm[i]]) ELSE edges[perm[i]]]

\* Two triangles far apart, as in test_two_separate_paths (two squares there).
TwoTriangles == FigEdges(3, 0) \o FigEdges(3, 6 * Unit)

\* One polygon of 2..MaxFigSegs edges, or two polygons far apart with at most
\* MaxFigSegs edges together, or the two triangles, in every order and with
\* every edge in either direction.
FigInit ==
    \/ \E k1 \in 2..MaxFigSegs, k2 \in {0} \cup (2..MaxFigSegs) :
           /\ k1 + k2 <= MaxFigSegs
           /\ k2 <= k1
           /\ LET edges == FigEdges(k1, 0) \o FigEdges(k2, 6 * Unit)
              IN  \E perm \in Perms(k1 + k2), flips \in [1..(k1 + k2) -> BOOLEAN] :
                      AsmStart(Shuffled(edges, perm, flips), TolOne)
    \/ \E perm \in Perms(Len(TwoTriangles)),
             flips \in [1..Len(TwoTriangles) -> BOOLEAN] :
           AsmStart(Shuffled(TwoTriangles, perm, flips), TolOne)

SpecFig == FigInit /\ [][AsmNext]_vars

SegCells(seg) == {PointKey(seg.start, grid_inv), PointKey(seg.end, grid_inv)}

CellsOf(S) == UNION {SegCells(segments[i]) : i \in S}

\* How many endpoints of the segments in S lie in cell c.
Incidence(S, c) ==
    Cardinality({i \in S : PointKey(segments[i].start, grid_inv) = c})
    + Cardinality({i \in S : PointKey(segments[i].end, grid_inv) = c})

\* The segments connected to those in S through shared cells.
RECURSIVE Component(_, _)
Component(S, n) ==
    IF n = 0 THEN S
    ELSE LET cs == CellsOf(S)
             T  == S \cup {i \in 1..Len(segments) : SegCells(segments[i]) \cap cs # {}}
         IN  IF T = S THEN S ELSE Component(T, n - 1)

\* The segments in S form one simple closed polygon: no segment starts and
\* ends in the same cell, every vertex is shared by exactly two segments, and
\* S is connected.
SimplePolygon(S) ==
    /\ S # {}
    /\ \A i \in S : Cardinality(SegCells(segments[i])) = 2
    /\ \A c \in CellsOf(S) : Incidence(S, c) = 2
    /\ Component({CHOOSE i \in S : TRUE}, Len(segments)) = S

AllSegs == 1..Len(segments)

\* Path p holds exactly the segments in S, each once, as given or reversed.
HoldsExactly(p, S) ==
    /\ Len(p.idx) = Cardinality(S)
    /\ PathIdxSet(p) = S
    /\ \A k \in 1..Len(p.idx) :
           \/ p.segments[k] = segments[p.idx[k]]
           \/ p.segments[k] = FlipSegment(segments[p.idx[k]])

\* C1: a bag of lines that forms a single simple closed polygon, in any
\* order, is assembled into exactly one ClosedPath, and the path holds every
\* input segment exactly once.
C1_OnePolygonOnePath ==
    (Ended /\ SimplePolygon(AllSegs)) =>
        /\ Returned
        /\ Len(paths) = 1
        /\ HoldsExactly(paths[1], AllSegs)

\* A shuffled polygon of at least 4 edges, assembled, with an edge reversed.
C1_Witness ==
    /\ Returned
    /\ SimplePolygon(AllSegs)
    /\ Len(segments) >= 4
    /\ Len(paths) = 1
    /\ paths[1].idx # <<1, 2, 3, 4>>
    /\ \E k \in 1..Len(paths[1].idx) : paths[1].segments[k] # segments[paths[1].idx[k]]

\* The input is two simple closed polygons that share no grid cell.
TwoFigures(S1, S2) ==
    /\ S1 \cup S2 = AllSegs
    /\ S1 \cap S2 = {}
    /\ SimplePolygon(S1)
    /\ SimplePolygon(S2)
    /\ CellsOf(S1) \cap CellsOf(S2) = {}

FirstFigure == Component({1}, Len(segments))

\* C5: two closed figures that share no grid cell, handed over together in
\* any interleaved order, are assembled into exactly two ClosedPaths, each
\* holding exactly the segments of one figure.
C5_TwoFiguresTwoPaths ==
    (Ended /\ Len(segments) > 0) =>
        LET F == FirstFigure
        IN  TwoFigures(F, AllSegs \ F) =>
                /\ Returned
                /\ Len(paths) = 2
                /\ HoldsExactly(paths[1], F)
                /\ HoldsExactly(paths[2], AllSegs \ F)

\* Two interleaved figures, assembled.
C5_Witness ==
    /\ Returned
    /\ Len(segments) >= 6
    /\ TwoFigures(FirstFigure, AllSegs \ FirstFigure)
    /\ 2 \notin FirstFigure
    /\ 3 \in FirstFigure
    /\ Len(paths) = 2

-----------------------------------------------------------------------------
(* Loops whose joints are slightly off *)

\* tolerance = 0.5 mm, so grid_inv = 2
TolHalf == Unit \div 2

\* The corners of a triangle; their x coordinates are odd multiples of half
\* a millimetre.
Tri == << <<4, 0>>, <<2 * Unit + 4, 0>>, <<Unit + 4, 2 * Unit>> >>

\* Edge i runs from corner i, moved by off[i] along x, to corner i + 1.
TriEdges(off) ==
    [i \in 1..3 |-> LinePathSegment(Shift(Tri[i], off[i]), Tri[(i % 3) + 1])]

\* A triangle in any order whose joints are off by at most MaxOff/Unit mm,
\* assembled with tolerance 1.0 mm or 0.5 mm.
TolInit ==
    \E off \in [1..3 -> 0..MaxOff], perm \in Perms(3), t \in {TolOne, TolHalf} :
        AsmStart(Shuffled(TriEdges(off), perm, [i \in 1..3 |-> FALSE]), t)

SpecTol == TolInit /\ [][AsmNext]_vars

\* The distance between p and q is less than the tolerance.
WithinTolerance(p, q) ==
    (p[1] - q[1]) * (p[1] - q[1]) + (p[2] - q[2]) * (p[2] - q[2]) < tolU * tolU

\* Every segment ends within tolerance of another segment's start and starts
\* within tolerance of another segment's end.
NearLoop ==
    /\ Len(segments) >= 2
    /\ \A i \in AllSegs :
           /\ \E j \in AllSegs \ {i} : WithinTolerance(segments[i].end, segments[j].start)
           /\ \E j \in AllSegs \ {i} : WithinTolerance(segments[i].start, segments[j].end)

\* C7: endpoints closer to each other than the tolerance are treated as the
\* same point, so a loop whose joints are off by less than the tolerance
\* still closes into one path of all its segments.
C7_WithinToleranceCloses ==
    (Ended /\ NearLoop) =>
        /\ Returned
        /\ Len(paths) = 1
        /\ Len(paths[1].segments) = Len(segments)
-----------------------------------------------------------------------------
(* The classifier of dxf_reader.py *)

\* A layer name is the sequence of its characters.
\* The capital letters of ASCII and of Latin-1, and what str.lower() makes of
\* each; on every other character of ASCII and Latin-1 str.lower() is the
\* identity. Layer names of the model are written in these characters.
UpperChars == <<"A", "B", "C", "D", "E", "F", "G", "H", "I", "J", "K", "L", "M", "N", "O", "P", "Q", "R", "S", "T", "U", "V", "W", "X", "Y", "Z", "À", "Á", "Â", "Ã", "Ä", "Å", "Æ", "Ç", "È", "É", "Ê", "Ë", "Ì", "Í", "Î", "Ï", "Ð", "Ñ", "Ò", "Ó", "Ô", "Õ", "Ö", "Ø", "Ù", "Ú", "Û", "Ü", "Ý", "Þ">>

LowerChars == <<"a", "b", "c", "d", "e", "f", "g", "h", "i", "j", "k", "l", "m", "n", "o", "p", "q", "r", "s", "t", "u", "v", "w", "x", "y", "z", "à", "á", "â", "ã", "ä", "å", "æ", "ç", "è", "é", "ê", "ë", "ì", "í", "î", "ï", "ð", "ñ", "ò", "ó", "ô", "õ", "ö", "ø", "ù", "ú", "û", "ü", "ý", "þ">>

\* str.lower() on one character
LowerChar(c) ==
    IF \E k \in 1..Len(UpperChars) : UpperChars[k] = c
    THEN LowerChars[CHOOSE k \in 1..Len(UpperChars) : UpperChars[k] = c]
    ELSE c

Lower(name) == [k \in 1..Len(name) |-> LowerChar(name[k])]

\* "pattern in text": pattern occurs in text as a substring
Contains(pattern, text) ==
    \E off \in 0..(Len(text) - Len(pattern)) :
        \A k \in 1..Len(pattern) : text[off + k] = pattern[k]

\* _LAYER_PATTERNS, in the order the dict is written in
LAYER_PATTERNS ==
    << [role |-> "outline", patterns |-> <<<<"o", "u", "t", "l", "i", "n", "e">>,
            <<"b", "o", "a", "r", "d">>,
            <<"b", "o", "u", "n", "d", "a", "r", "y">>,
            <<"p", "r", "o", "f", "i", "l", "e">>,
            <<"e", "d", "g", "e">>,
            <<"b", "o", "r", "d", "e", "r">>>>],
       [role |-> "cutout", patterns |-> <<<<"c", "u", "t", "o", "u", "t">>,
            <<"r", "o", "u", "t", "e">>,
            <<"r", "o", "u", "t">>,
            <<"s", "l", "o", "t">>>>],
       [role |-> "hole", patterns |-> <<<<"h", "o", "l", "e">>,
            <<"d", "r", "i", "l", "l">>,
            <<"m", "o", "u", "n", "t">>>>],
       [role |-> "keepout", patterns |-> <<<<"k", "e", "e", "p", "o", "u", "t">>,
            <<"k", "e", "e", "p", "-", "o", "u", "t">>,
            <<"k", "e", "e", "p", "_", "o", "u", "t">>,
            <<"r", "e", "s", "t", "r", "i", "c", "t">>>>],
       [role |-> "soldermask", patterns |-> <<<<"m", "a", "s", "k">>,
            <<"s", "o", "l", "d", "e", "r", "m", "a", "s", "k">>,
            <<"s", "o", "l", "d", "e", "r">>>>],
       [role |-> "annotation", patterns |-> <<<<"d", "i", "m">>,
            <<"d", "i", "m", "e", "n", "s", "i", "o", "n">>,
            <<"n", "o", "t", "e">>,
            <<"t", "e", "x", "t">>,
            <<"a", "n", "n", "o">>>>] >>

\* A mutant of _classify_layer: the name is matched as it is written.
ClassifyLayerCased(layer_name) ==
    LET hits == {r \in 1..Len(LAYER_PATTERNS) :
                    \E k \in 1..Len(LAYER_PATTERNS[r].patterns) :
                        Contains(LAYER_PATTERNS[r].patterns[k], layer_name)}
    IN  IF hits = {} THEN "None" ELSE LAYER_PATTERNS[Lowest(hits)].role

\* A mutant of _classify_layer: the role of the pattern that occurs leftmost
\* in the name.
ClassifyLayerLeftmost(layer_name) ==
    LET lower == Lower(layer_name)
        At(p, off) == /\ off + Len(p) <= Len(lower)
                      /\ \A k \in 1..Len(p) : lower[off + k] = p[k]
        offs(r) == {off \in 0..Len(lower) :
                       \E k \in 1..Len(LAYER_PATTERNS[r].patterns) :
                           At(LAYER_PATTERNS[r].patterns[k], off)}
        hits == {r \in 1..Len(LAYER_PATTERNS) : offs(r) # {}}
        best == CHOOSE r \in hits : \A m \in hits :
                    \/ Lowest(offs(r)) < Lowest(offs(m))
                    \/ Lowest(offs(r)) = Lowest(offs(m)) /\ r <= m
    IN  IF hits = {} THEN "None" ELSE LAYER_PATTERNS[best].role

\* _classify_layer: the first role one of whose patterns occurs in the
\* lower-cased name; "None" when there is none.
ClassifyLayer(layer_name) ==
    LET lower == Lower(layer_name)
        hits  == {r \in 1..Len(LAYER_PATTERNS) :
                     \E k \in 1..Len(LAYER_PATTERNS[r].patterns) :
                         Contains(LAYER_PATTERNS[r].patterns[k], lower)}
    IN  IF hits = {} THEN "None" ELSE LAYER_PATTERNS[Lowest(hits)].role

\* path_area without its final division by two: twice the signed area
\* (positive = counter-clockwise), in (1/Unit mm)^2.
RECURSIVE ShoelaceUpTo(_, _)
ShoelaceUpTo(segs, k) ==
    IF k = 0 THEN 0
    ELSE ShoelaceUpTo(segs, k - 1)
         + segs[k].start[1] * segs[k].end[2] - segs[k].end[1] * segs[k].start[2]

PathArea2(path) == ShoelaceUpTo(path.segments, Len(path.segments))

\* A mutant of the key of max(): the signed area.
AreaKeySigned(path) == PathArea2(path)

\* key=lambda p: abs(path_area(p))
AreaKey(path) == Abs(PathArea2(path))

\* max(range(len(items)), key=...): the first position whose key is greatest.
\* items is a list of indices into all; the value is a position in items.
ArgMax(items, all) ==
    Lowest({a \in 1..Len(items) :
               \A b \in 1..Len(items) : AreaKey(all[items[b]]) <= AreaKey(all[items[a]])})

SetMin(S) == CHOOSE x \in S : \A y \in S : x <= y

SetMax(S) == CHOOSE x \in S : \A y \in S : x >= y

\* A mutant of _angle_in_arc: an arc that wraps through 0 is not recognised.
AngleInArcNoWrap(angle, start, end) ==
    LET a == angle % 360
        s == start % 360
        e == end % 360
    IN  s <= a /\ a <= e

\* _angle_in_arc: the angle lies on the arc from start counter-clockwise to
\* end.
AngleInArc(angle, start, end) ==
    LET a == angle % 360
        s == start % 360
        e == end % 360
    IN  IF s <= e THEN s <= a /\ a <= e ELSE a >= s \/ a <= e

\* _arc_bbox_extend: the points it appends, one for each cardinal direction
\* on the arc.
ArcBboxExtend(arc) ==
    LET sa == arc.start_angle % 360
        ea == arc.end_angle % 360
    IN  {<<arc.center[1] + arc.radius * CosDeg(angle),
           arc.center[2] + arc.radius * SinDeg(angle)>> :
            angle \in {a \in {0, 90, 180, 270} : AngleInArc(a, sa, ea)}}

\* The points path_bounding_box collects for one segment.
BboxPoints(seg) ==
    IF IsArc(seg) THEN {seg.start_point, seg.end_point} \cup ArcBboxExtend(seg)
    ELSE {seg.start, seg.end}

\* path_bounding_box: <<min x, min y, max x, max y>>
PathBoundingBox(path) ==
    LET pts == UNION {BboxPoints(path.segments[k]) : k \in 1..Len(path.segments)}
        xs  == {p[1] : p \in pts}
        ys  == {p[2] : p \in pts}
    IN  IF xs = {} THEN <<0, 0, 0, 0>>
        ELSE <<SetMin(xs), SetMin(ys), SetMax(xs), SetMax(ys)>>

\* The centre of the bounding box, times two (it need not lie on the grid).
BoxCentre2(path) ==
    LET bb == PathBoundingBox(path) IN <<bb[1] + bb[3], bb[2] + bb[4]>>

\* The arithmetic of _ray_crosses_line is that of Python floats (IEEE 754
\* doubles, 53 significant bits, round to nearest, ties to even).  A
\* coordinate of the model is a whole number of 1/Unit mm and Unit is a power
\* of two, so every coordinate and every difference of two coordinates is a
\* double, and the results below do not depend on the power of two.  A
\* magnitude is written to the base 65536, lowest digit first, with four
\* digits (64 bits) after the point; this holds every value met for doubled
\* coordinates between -1024 and 1024.
Pow2(k) ==
    <<1, 2, 4, 8, 16, 32, 64, 128, 256, 512, 1024, 2048, 4096, 8192, 16384,
      32768, 65536>>[k + 1]

\* The double n, for a natural number n.
FloatOf(n) == <<0, 0, 0, 0, n>>

Limb(s, i) == IF i \in 1..Len(s) THEN s[i] ELSE 0

\* Bit k of s, counted from 1 at the lowest.
BitAt(s, k) == (Limb(s, ((k - 1) \div 16) + 1) \div Pow2((k - 1) % 16)) % 2

\* The place of the highest bit 1; 0 when there is none.
TopBit(s) ==
    LET nz == {i \in 1..Len(s) : s[i] # 0}
    IN  IF nz = {} THEN 0
        ELSE LET i == CHOOSE m \in nz : \A j \in nz : j <= m
             IN  16 * (i - 1) + (CHOOSE n \in 1..16 : Pow2(n - 1) <= s[i] /\ s[i] < Pow2(n))

\* s >= t
Geq(s, t) ==
    LET n == IF Len(s) > Len(t) THEN Len(s) ELSE Len(t)
        d == {i \in 1..n : Limb(s, i) # Limb(t, i)}
    IN  d = {} \/ LET i == CHOOSE m \in d : \A j \in d : j <= m
                  IN  Limb(s, i) > Limb(t, i)

\* s + t
AddLimbs(s, t) ==
    LET n == (IF Len(s) > Len(t) THEN Len(s) ELSE Len(t)) + 1
        carry[i \in 0..n] ==
            IF i = 0 THEN 0 ELSE (Limb(s, i) + Limb(t, i) + carry[i - 1]) \div 65536
    IN  [i \in 1..n |-> (Limb(s, i) + Limb(t, i) + carry[i - 1]) % 65536]

\* s - t for s >= t
SubLimbs(s, t) ==
    LET borrow[i \in 0..Len(s)] ==
            IF i = 0 THEN 0
            ELSE IF Limb(s, i) - Limb(t, i) - borrow[i - 1] < 0 THEN 1 ELSE 0
    IN  [i \in 1..Len(s) |-> (Limb(s, i) - Limb(t, i) - borrow[i - 1]) % 65536]

\* s * c for a natural number c below 2^12
MulLimbs(s, c) ==
    LET n == Len(s) + 1
        carry[i \in 0..n] ==
            IF i = 0 THEN 0 ELSE (Limb(s, i) * c + carry[i - 1]) \div 65536
    IN  [i \in 1..n |-> (Limb(s, i) * c + carry[i - 1]) % 65536]

\* What is left of a / b, for 0 <= a < b < 2^12, after k digits after the
\* point.
DivRest(a, b, k) ==
    LET rest[j \in 0..k] == IF j = 0 THEN a ELSE (65536 * rest[j - 1]) % b
    IN  rest[k]

\* a / b, for 0 <= a <= b < 2^12, cut off after the four digits after the
\* point.
DivLimbs(a, b) ==
    [i \in 1..5 |-> IF i = 5 THEN a \div b
                    ELSE (65536 * DivRest(a % b, b, 4 - i)) \div b]

\* The double nearest to the magnitude s; rest tells that s was cut off
\* below its last digit.
RoundToDouble(s, rest) ==
    LET h  == TopBit(s)
        g  == h - 53
        gl == ((g - 1) \div 16) + 1
        cl == (g \div 16) + 1
        o  == g % 16
    IN  IF g <= 0 THEN s
        ELSE LET below == \/ rest
                          \/ \E i \in 1..(gl - 1) : s[i] # 0
                          \/ s[gl] % Pow2((g - 1) % 16) # 0
                 up  == BitAt(s, g) = 1 /\ (below \/ BitAt(s, g + 1) = 1)
                 cut == [i \in 1..Len(s) |->
                            IF i < cl THEN 0
                            ELSE IF i = cl THEN s[i] - (s[i] % Pow2(o))
                            ELSE s[i]]
             IN  IF up
                 THEN AddLimbs(cut, [i \in 1..cl |-> IF i = cl THEN Pow2(o) ELSE 0])
                 ELSE cut

\* x_intersect > px, with t = (py - y1) / (y2 - y1) and
\* x_intersect = x1 + t * (x2 - x1) computed in doubles; py lies between y1
\* and y2, which differ.
XIntersectExceeds(px, py, x1, y1, x2, y2) ==
    LET a == Abs(py - y1)
        b == Abs(y2 - y1)
        c == x2 - x1
    IN  \E t \in {RoundToDouble(DivLimbs(a, b), DivRest(a % b, b, 4) # 0)} :
        \E u \in {RoundToDouble(MulLimbs(t, Abs(c)), FALSE)} :
        \E w \in {FloatOf(Abs(x1))} :
        \E sum \in {IF TopBit(u) = 0 THEN [neg |-> x1 < 0, mag |-> w]
                    ELSE IF TopBit(w) = 0 THEN [neg |-> c < 0, mag |-> u]
                    ELSE IF (x1 < 0) = (c < 0) THEN [neg |-> x1 < 0, mag |-> AddLimbs(w, u)]
                    ELSE IF Geq(w, u) THEN [neg |-> x1 < 0, mag |-> SubLimbs(w, u)]
                    ELSE [neg |-> c < 0, mag |-> SubLimbs(u, w)]} :
        \E x \in {RoundToDouble(sum.mag, FALSE)} :
        \E p \in {FloatOf(Abs(px))} :
            IF TopBit(x) = 0 THEN px < 0
            ELSE IF sum.neg THEN px < 0 /\ ~Geq(x, p)
            ELSE px < 0 \/ ~Geq(p, x)

\* A mutant of _ray_crosses_line: the crossing rule is closed at both ends
\* of the segment.
RayCrossesLineClosed(p2, seg) ==
    LET x1 == 2 * seg.start[1]
        y1 == 2 * seg.start[2]
        x2 == 2 * seg.end[1]
        y2 == 2 * seg.end[2]
        px == p2[1]
        py == p2[2]
    IN  IF y1 # y2 /\ ((y1 <= py /\ py <= y2) \/ (y2 <= py /\ py <= y1))
        THEN IF XIntersectExceeds(px, py, x1, y1, x2, y2) THEN 1 ELSE 0
        ELSE 0

\* _ray_crosses_line for the point p2/2: 1 when the ray towards +x crosses
\* the segment.
RayCrossesLine(p2, seg) ==
    LET x1 == 2 * seg.start[1]
        y1 == 2 * seg.start[2]
        x2 == 2 * seg.end[1]
        y2 == 2 * seg.end[2]
        px == p2[1]
        py == p2[2]
    IN  IF (y1 <= py /\ py < y2) \/ (y2 <= py /\ py < y1)
        THEN IF XIntersectExceeds(px, py, x1, y1, x2, y2) THEN 1 ELSE 0
        ELSE 0

RECURSIVE CrossingsUpTo(_, _, _)
CrossingsUpTo(p2, segs, k) ==
    IF k = 0 THEN 0 ELSE CrossingsUpTo(p2, segs, k - 1) + RayCrossesLine(p2, segs[k])

\* point_in_path for the point p2/2 and a path of lines
PointInPath(p2, path) == CrossingsUpTo(p2, path.segments, Len(path.segments)) % 2 = 1

\* The assembler is not running.
AsmIdle == pc = "idle" /\ AsmFields(<<>>, TolOne)

\* classify_entities at "# Classify everything".
ClsStart(ps, cs, lm) ==
    /\ cpc = "dispatch"
    /\ all_paths = ps
    /\ circles = cs
    /\ layer_map = lm
    /\ ci = 1
    /\ outline_candidates = <<>>
    /\ unresolved_paths = <<>>
    /\ unresolved_circles = <<>>
    /\ result = EmptyResult
    /\ AsmIdle
    /\ FnIdle

\* dict.get(key): the value, or "None"
Get(d, key) == IF key \in DOMAIN d THEN d[key] ELSE "None"

\* "if layer_map:" is true for a dict that has entries.
Truthy(lm) == lm.given /\ DOMAIN lm.entries # {}

\* "if layer_map: ... else: ..."
ClsDispatch ==
    /\ cpc = "dispatch"
    /\ cpc' = IF Truthy(layer_map) THEN "map_paths" ELSE "heu_paths"
    /\ UNCHANGED <<all_paths, circles, layer_map, ci, outline_candidates,
                   unresolved_paths, unresolved_circles, result>>
    /\ UNCHANGED <<asmVars, fnVars>>

\* A mutant of the explicit routing: a label the map lacks is routed by its
\* keywords.
MapPathKeywords ==
    /\ cpc = "map_paths"
    /\ ci <= Len(all_paths)
    /\ LET found == Get(layer_map.entries, all_paths[ci].source_layer)
           role  == IF found = "None" THEN ClassifyLayer(all_paths[ci].source_layer)
                    ELSE found
       IN  IF role = "outline"
           THEN /\ outline_candidates' = Append(outline_candidates, ci)
                /\ UNCHANGED result
           ELSE /\ UNCHANGED outline_candidates
                /\ result' =
                     IF role = "cutout"
                     THEN [result EXCEPT !.cutouts = Append(@, ci)]
                     ELSE IF role = "keepout"
                     THEN [result EXCEPT !.keepouts = Append(@, ci)]
                     ELSE IF role = "soldermask"
                     THEN [result EXCEPT !.soldermask_openings = Append(@, ci)]
                     ELSE [result EXCEPT !.unclassified_paths = Append(@, ci)]
    /\ ci' = ci + 1
    /\ UNCHANGED <<cpc, all_paths, circles, layer_map, unresolved_paths,
                   unresolved_circles>>
    /\ UNCHANGED <<asmVars, fnVars>>

\* _classify_by_layer_map: one iteration of "for path in paths".
MapPath ==
    /\ cpc = "map_paths"
    /\ ci <= Len(all_paths)
    /\ LET role == Get(layer_map.entries, all_paths[ci].source_layer)
       IN  IF role = "outline"
           THEN /\ outline_candidates' = Append(outline_candidates, ci)
                /\ UNCHANGED result
           ELSE /\ UNCHANGED outline_candidates
                /\ result' =
                     IF role = "cutout"
                     THEN [result EXCEPT !.cutouts = Append(@, ci)]
                     ELSE IF role = "keepout"
                     THEN [result EXCEPT !.keepouts = Append(@, ci)]
                     ELSE IF role = "soldermask"
                     THEN [result EXCEPT !.soldermask_openings = Append(@, ci)]
                     ELSE [result EXCEPT !.unclassified_paths = Append(@, ci)]
    /\ ci' = ci + 1
    /\ UNCHANGED <<cpc, all_paths, circles, layer_map, unresolved_paths,
                   unresolved_circles>>
    /\ UNCHANGED <<asmVars, fnVars>>

\* _classify_by_layer_map: "if outline_candidates: result.outline = max(...)".
MapOutline ==
    /\ cpc = "map_paths"
    /\ ci > Len(all_paths)
    /\ result' =
         IF outline_candidates # <<>>
         THEN [result EXCEPT !.outline =
                  outline_candidates[ArgMax(outline_candidates, all_paths)]]
         ELSE result
    /\ cpc' = "map_circles"
    /\ ci' = 1
    /\ UNCHANGED <<all_paths, circles, layer_map, outline_candidates,
                   unresolved_paths, unresolved_circles>>
    /\ UNCHANGED <<asmVars, fnVars>>

\* _classify_by_layer_map: one iteration of "for circle in circles".
MapCircle ==
    /\ cpc = "map_circles"
    /\ ci <= Len(circles)
    /\ result' =
         IF Get(layer_map.entries, circles[ci].layer) = "hole"
         THEN [result EXCEPT !.holes = Append(@, ci)]
         ELSE [result EXCEPT !.unclassified_circles = Append(@, ci)]
    /\ ci' = ci + 1
    /\ UNCHANGED <<cpc, all_paths, circles, layer_map, outline_candidates,
                   unresolved_paths, unresolved_circles>>
    /\ UNCHANGED <<asmVars, fnVars>>

\* _classify_by_layer_map: "return result".
MapReturn ==
    /\ cpc = "map_circles"
    /\ ci > Len(circles)
    /\ cpc' = "done"
    /\ UNCHANGED <<all_paths, circles, layer_map, ci, outline_candidates,
                   unresolved_paths, unresolved_circles, result>>
    /\ UNCHANGED <<asmVars, fnVars>>

\* _classify_by_heuristics: one iteration of "for path in paths".
HeuPath ==
    /\ cpc = "heu_paths"
    /\ ci <= Len(all_paths)
    /\ LET role == ClassifyLayer(all_paths[ci].source_layer)
       IN  IF role = "outline"
           THEN /\ outline_candidates' = Append(outline_candidates, ci)
                /\ UNCHANGED <<result, unresolved_paths>>
           ELSE IF role \in {"cutout", "keepout", "soldermask"}
           THEN /\ result' =
                     IF role = "cutout"
                     THEN [result EXCEPT !.cutouts = Append(@, ci)]
                     ELSE IF role = "keepout"
                     THEN [result EXCEPT !.keepouts = Append(@, ci)]
                     ELSE [result EXCEPT !.soldermask_openings = Append(@, ci)]
                /\ UNCHANGED <<outline_candidates, unresolved_paths>>
           ELSE /\ unresolved_paths' = Append(unresolved_paths, ci)
                /\ UNCHANGED <<result, outline_candidates>>
    /\ ci' = ci + 1
    /\ UNCHANGED <<cpc, all_paths, circles, layer_map, unresolved_circles>>
    /\ UNCHANGED <<asmVars, fnVars>>

\* _classify_by_heuristics: the path loop is over, the circle loop begins.
HeuPathsDone ==
    /\ cpc = "heu_paths"
    /\ ci > Len(all_paths)
    /\ cpc' = "heu_circles"
    /\ ci' = 1
    /\ UNCHANGED <<all_paths, circles, layer_map, outline_candidates,
                   unresolved_paths, unresolved_circles, result>>
    /\ UNCHANGED <<asmVars, fnVars>>

\* _classify_by_heuristics: one iteration of "for circle in circles".
HeuCircle ==
    /\ cpc = "heu_circles"
    /\ ci <= Len(circles)
    /\ IF ClassifyLayer(circles[ci].layer) = "hole"
       THEN /\ result' = [result EXCEPT !.holes = Append(@, ci)]
            /\ UNCHANGED unresolved_circles
       ELSE /\ unresolved_circles' = Append(unresolved_circles, ci)
            /\ UNCHANGED result
    /\ ci' = ci + 1
    /\ UNCHANGED <<cpc, all_paths, circles, layer_map, outline_candidates,
                   unresolved_paths>>
    /\ UNCHANGED <<asmVars, fnVars>>

\* list.pop(k): the list without its element at position k
Pop(items, k) == SubSeq(items, 1, k - 1) \o SubSeq(items, k + 1, Len(items))

\* A mutant of the promotion: the largest unresolved path becomes the outline
\* and stays in the list.
HeuOutlineNoPop ==
    /\ cpc = "heu_circles"
    /\ ci > Len(circles)
    /\ IF outline_candidates # <<>>
       THEN /\ result' = [result EXCEPT !.outline =
                            outline_candidates[ArgMax(outline_candidates, all_paths)]]
            /\ UNCHANGED unresolved_paths
       ELSE IF unresolved_paths # <<>>
       THEN /\ result' = [result EXCEPT !.outline =
                            unresolved_paths[ArgMax(unresolved_paths, all_paths)]]
            /\ UNCHANGED unresolved_paths
       ELSE UNCHANGED <<result, unresolved_paths>>
    /\ cpc' = "heu_rest_paths"
    /\ ci' = 1
    /\ UNCHANGED <<all_paths, circles, layer_map, outline_candidates,
                   unresolved_circles>>
    /\ UNCHANGED <<asmVars, fnVars>>

\* _classify_by_heuristics: "Pick outline from candidates or largest
\* unresolved path".
HeuOutline ==
    /\ cpc = "heu_circles"
    /\ ci > Len(circles)
    /\ IF outline_candidates # <<>>
       THEN /\ result' = [result EXCEPT !.outline =
                            outline_candidates[ArgMax(outline_candidates, all_paths)]]
            /\ UNCHANGED unresolved_paths
       ELSE IF unresolved_paths # <<>>
       THEN LET largest_idx == ArgMax(unresolved_paths, all_paths)
            IN  /\ result' = [result EXCEPT !.outline = unresolved_paths[largest_idx]]
                /\ unresolved_paths' = Pop(unresolved_paths, largest_idx)
       ELSE UNCHANGED <<result, unresolved_paths>>
    /\ cpc' = "heu_rest_paths"
    /\ ci' = 1
    /\ UNCHANGED <<all_paths, circles, layer_map, outline_candidates,
                   unresolved_circles>>
    /\ UNCHANGED <<asmVars, fnVars>>

\* A mutant of the containment loop: every unresolved path becomes a cutout,
\* wherever it lies.
HeuRestPathNoTest ==
    /\ cpc = "heu_rest_paths"
    /\ result.outline # 0
    /\ ci <= Len(unresolved_paths)
    /\ result' = [result EXCEPT !.cutouts = Append(@, unresolved_paths[ci])]
    /\ ci' = ci + 1
    /\ UNCHANGED <<cpc, all_paths, circles, layer_map, outline_candidates,
                   unresolved_paths, unresolved_circles>>
    /\ UNCHANGED <<asmVars, fnVars>>

\* _classify_by_heuristics: with an outline, one iteration of
\* "for path in unresolved_paths".
HeuRestPath ==
    /\ cpc = "heu_rest_paths"
    /\ result.outline # 0
    /\ ci <= Len(unresolved_paths)
    /\ LET path == all_paths[unresolved_paths[ci]]
       IN  result' =
             IF PointInPath(BoxCentre2(path), all_paths[result.outline])
             THEN [result EXCEPT !.cutouts = Append(@, unresolved_paths[ci])]
             ELSE [result EXCEPT !.unclassified_paths = Append(@, unresolved_paths[ci])]
    /\ ci' = ci + 1
    /\ UNCHANGED <<cpc, all_paths, circles, layer_map, outline_candidates,
                   unresolved_paths, unresolved_circles>>
    /\ UNCHANGED <<asmVars, fnVars>>

\* _classify_by_heuristics: the loop over the unresolved paths is over.
HeuRestPathsDone ==
    /\ cpc = "heu_rest_paths"
    /\ result.outline # 0
    /\ ci > Len(unresolved_paths)
    /\ cpc' = "heu_rest_circles"
    /\ ci' = 1
    /\ UNCHANGED <<all_paths, circles, layer_map, outline_candidates,
                   unresolved_paths, unresolved_circles, result>>
    /\ UNCHANGED <<asmVars, fnVars>>

\* _classify_by_heuristics: with an outline, one iteration of
\* "for circle in unresolved_circles".
HeuRestCircle ==
    /\ cpc = "heu_rest_circles"
    /\ ci <= Len(unresolved_circles)
    /\ LET c == circles[unresolved_circles[ci]]
       IN  result' =
             IF PointInPath(<<2 * c.center[1], 2 * c.center[2]>>, all_paths[result.outline])
             THEN [result EXCEPT !.holes = Append(@, unresolved_circles[ci])]
             ELSE [result EXCEPT !.unclassified_circles = Append(@, unresolved_circles[ci])]
    /\ ci' = ci + 1
    /\ UNCHANGED <<cpc, all_paths, circles, layer_map, outline_candidates,
                   unresolved_paths, unresolved_circles>>
    /\ UNCHANGED <<asmVars, fnVars>>

\* _classify_by_heuristics: without an outline everything unresolved is
\* unclassified.
HeuNoOutline ==
    /\ cpc = "heu_rest_paths"
    /\ result.outline = 0
    /\ result' = [result EXCEPT !.unclassified_paths = unresolved_paths,
                                !.unclassified_circles = unresolved_circles]
    /\ cpc' = "done"
    /\ UNCHANGED <<all_paths, circles, layer_map, ci, outline_candidates,
                   unresolved_paths, unresolved_circles>>
    /\ UNCHANGED <<asmVars, fnVars>>

\* _classify_by_heuristics: "return result".
HeuReturn ==
    /\ cpc = "heu_rest_circles"
    /\ ci > Len(unresolved_circles)
    /\ cpc' = "done"
    /\ UNCHANGED <<all_paths, circles, layer_map, ci, outline_candidates,
                   unresolved_paths, unresolved_circles, result>>
    /\ UNCHANGED <<asmVars, fnVars>>

ClsNext ==
    \/ ClsDispatch
    \/ MapPath \/ MapOutline \/ MapCircle \/ MapReturn
    \/ HeuPath \/ HeuPathsDone \/ HeuCircle \/ HeuOutline
    \/ HeuRestPath \/ HeuRestPathsDone \/ HeuRestCircle \/ HeuNoOutline \/ HeuReturn

-----------------------------------------------------------------------------
(* Inputs of the classifier *)

\* Largest number of closed paths handed to the classifier.
MaxPaths == 2

\* The closed rectangle with corners (x0, y0) and (x1, y1), counter-clockwise.
Rect(x0, y0, x1, y1) ==
    << LinePathSegment(<<x0, y0>>, <<x1, y0>>), LinePathSegment(<<x1, y0>>, <<x1, y1>>),
       LinePathSegment(<<x1, y1>>, <<x0, y1>>), LinePathSegment(<<x0, y1>>, <<x0, y0>>) >>

\* The same loop walked the other way round.
Reversed(segs) == [k \in 1..Len(segs) |-> FlipSegment(segs[Len(segs) + 1 - k])]

\* A 10 mm square walked clockwise, a 2 mm square inside it and a 2 mm
\* square outside it.
ShapeBig == Reversed(Rect(0, 0, 10 * Unit, 10 * Unit))

ShapeIn == Rect(2 * Unit, 2 * Unit, 4 * Unit, 4 * Unit)

ShapeOut == Rect(20 * Unit, 0, 22 * Unit, 2 * Unit)

Shapes == {ShapeBig, ShapeIn, ShapeOut}

L0 == <<"0">>

LEdge == <<"E", "d", "g", "e", ".", "C", "u", "t", "s">>

LSlot == <<"S", "L", "O", "T">>

LDrill == <<"d", "r", "i", "l", "l">>

LKeepout == <<"K", "e", "e", "p", "o", "u", "t">>

LMask == <<"m", "a", "s", "k">>

PathLayers == {L0, LEdge, LSlot, LDrill, LKeepout, LMask}

ClosedPath(segs, layer) == [segments |-> segs, source_layer |-> layer]

PathInputs == {ClosedPath(sh, l) : sh \in Shapes, l \in PathLayers}

DxfCircle(c, l) == [center |-> c, layer |-> l]

CIn == <<5 * Unit, 5 * Unit>>

COut == <<30 * Unit, 5 * Unit>>

\* No circle, one circle, or two circles.
CircleInputs ==
    { <<>>,
      <<DxfCircle(CIn, L0)>>, <<DxfCircle(COut, L0)>>,
      <<DxfCircle(CIn, LDrill)>>, <<DxfCircle(COut, LDrill)>>,
      <<DxfCircle(COut, L0), DxfCircle(CIn, L0)>> }

\* An explicit map with every role, and one that maps two labels to "outline".
MapRoles ==
    (LEdge :> "outline") @@ (LSlot :> "cutout") @@ (LDrill :> "hole")
    @@ (LKeepout :> "keepout") @@ (LMask :> "soldermask")

MapTwoOutlines == (LEdge :> "outline") @@ (L0 :> "outline") @@ (LDrill :> "hole")

\* No map, a map with no entries, and the two maps above.
LayerMaps == {NoMap, Dict(<<>>), Dict(MapRoles), Dict(MapTwoOutlines)}

\* Four 1 mm loops near the corners of the 10 mm square, all inside it, as
\* the screw holes of test_hawk_screwholes_outline_and_cutouts.
FourLoops ==
    << ClosedPath(Rect(Unit, Unit, 2 * Unit, 2 * Unit), L0),
       ClosedPath(Rect(8 * Unit, Unit, 9 * Unit, 2 * Unit), L0),
       ClosedPath(Rect(Unit, 8 * Unit, 2 * Unit, 9 * Unit), L0),
       ClosedPath(Rect(8 * Unit, 8 * Unit, 9 * Unit, 9 * Unit), L0) >>

\* The list items with x put in at position k.
InsertAt(items, k, x) ==
    SubSeq(items, 1, k - 1) \o <<x>> \o SubSeq(items, k, Len(items))

\* The square outline on the default layer together with the four loops,
\* the outline at any position of the list.
ScrewholeInputs ==
    {InsertAt(FourLoops, k, ClosedPath(Rect(0, 0, 10 * Unit, 10 * Unit), L0)) :
        k \in 1..(Len(FourLoops) + 1)}

ClsInit ==
    \/ \E ps \in SeqsUpTo(PathInputs, MaxPaths), cs \in CircleInputs, lm \in LayerMaps :
           ClsStart(ps, cs, lm)
    \/ \E ps \in ScrewholeInputs, cs \in CircleInputs :
           ClsStart(ps, cs, NoMap)

SpecCls == ClsInit /\ [][ClsNext]_vars

-----------------------------------------------------------------------------
(* Properties of the classifier *)

Classified == cpc = "done"

RECURSIVE Count(_, _)
Count(items, x) ==
    IF items = <<>> THEN 0
    ELSE (IF Head(items) = x THEN 1 ELSE 0) + Count(Tail(items), x)

Elems(items) == {items[k] : k \in 1..Len(items)}

\* Every place of the result that holds a path.
ListedPaths ==
    (IF result.outline = 0 THEN <<>> ELSE <<result.outline>>)
    \o result.cutouts \o result.keepouts \o result.soldermask_openings
    \o result.unclassified_paths

ListedCircles == result.holes \o result.unclassified_circles

\* C8: every closed path is in exactly one of outline, cutouts, keepouts,
\* soldermask_openings and unclassified_paths, and every circle is in
\* exactly one of holes and unclassified_circles.
C8_TotalPartition ==
    Classified =>
        /\ \A i \in 1..Len(all_paths) : Count(ListedPaths, i) = 1
        /\ \A c \in 1..Len(circles) : Count(ListedCircles, c) = 1

\* The mode the dispatch in classify_entities takes.
ExplicitMode == Truthy(layer_map)

\* The paths whose label is mapped to "outline" (explicit mode) or matches
\* an outline keyword (heuristic mode).
Candidates ==
    {i \in 1..Len(all_paths) :
        IF ExplicitMode
        THEN Get(layer_map.entries, all_paths[i].source_layer) = "outline"
        ELSE ClassifyLayer(all_paths[i].source_layer) = "outline"}

AbsArea2(i) == Abs(PathArea2(all_paths[i]))

\* C9: when there is an outline candidate, the result has an outline, and it
\* is a candidate whose absolute area no other candidate exceeds.
C9_LargestCandidate ==
    (Classified /\ Candidates # {}) =>
        /\ result.outline \in Candidates
        /\ \A j \in Candidates : AbsArea2(j) <= AbsArea2(result.outline)

\* Two candidates; the second one, walked clockwise, is the larger.
C9_Witness ==
    /\ Classified
    /\ Cardinality(Candidates) = 2
    /\ result.outline = 2
    /\ PathArea2(all_paths[2]) < 0
    /\ AbsArea2(1) < AbsArea2(2)

\* The paths the heuristic path loop leaves unresolved.
Unresolved ==
    {i \in 1..Len(all_paths) :
        ClassifyLayer(all_paths[i].source_layer)
            \notin {"outline", "cutout", "keepout", "soldermask"}}

\* C10: in heuristic mode without an outline candidate, the unresolved path
\* of greatest absolute area becomes the outline and is listed neither as a
\* cutout nor as unclassified.
C10_LargestPromoted ==
    (Classified /\ ~ExplicitMode /\ Candidates = {} /\ Unresolved # {}) =>
        /\ result.outline \in Unresolved
        /\ \A j \in Unresolved : AbsArea2(j) <= AbsArea2(result.outline)
        /\ result.outline \notin Elems(result.cutouts)
        /\ result.outline \notin Elems(result.unclassified_paths)

\* Two unresolved paths; the second is promoted, the first becomes a cutout.
C10_Witness ==
    /\ Classified
    /\ ~ExplicitMode
    /\ Candidates = {}
    /\ Unresolved = {1, 2}
    /\ result.outline = 2
    /\ result.cutouts = <<1>>

\* The circles the heuristic circle loop leaves unresolved.
UnresolvedCircles ==
    {c \in 1..Len(circles) : ClassifyLayer(circles[c].layer) # "hole"}

\* The centre of the bounding box of path i lies inside the outline.
PathInsideOutline(i) ==
    PointInPath(BoxCentre2(all_paths[i]), all_paths[result.outline])

\* The centre of circle c lies inside the outline.
CircleInsideOutline(c) ==
    PointInPath(<<2 * circles[c].center[1], 2 * circles[c].center[2]>>,
                all_paths[result.outline])

\* C11: in heuristic mode with an outline, an unresolved path other than the
\* outline is a cutout if and only if the centre of its bounding box lies
\* inside the outline and is unclassified otherwise; an unresolved circle is
\* a hole if and only if its centre lies inside the outline and is
\* unclassified otherwise; the square with four loops inside it gives one
\* outline, four cutouts and no unclassified path.
C11_ContainmentRouting ==
    (Classified /\ ~ExplicitMode /\ result.outline # 0) =>
        /\ \A i \in Unresolved \ {result.outline} :
               /\ i \in Elems(result.cutouts) <=> PathInsideOutline(i)
               /\ i \in Elems(result.unclassified_paths) <=> ~PathInsideOutline(i)
        /\ \A c \in UnresolvedCircles :
               /\ c \in Elems(result.holes) <=> CircleInsideOutline(c)
               /\ c \in Elems(result.unclassified_circles) <=> ~CircleInsideOutline(c)
        /\ all_paths \in ScrewholeInputs =>
               /\ all_paths[result.outline].segments = Rect(0, 0, 10 * Unit, 10 * Unit)
               /\ Len(result.cutouts) = 4
               /\ result.unclassified_paths = <<>>

\* The square with the four loops, classified, with one circle inside and
\* one outside.
C11_Witness ==
    /\ Classified
    /\ all_paths \in ScrewholeInputs
    /\ result.outline = 3
    /\ result.cutouts = <<1, 2, 4, 5>>
    /\ Len(result.holes) = 1
    /\ Len(result.unclassified_circles) = 1

\* The role the map gives to the label of path i, and to the label of circle c.
PathRole(i) == Get(layer_map.entries, all_paths[i].source_layer)

CircleRole(c) == Get(layer_map.entries, circles[c].layer)

\* The members of the set S of positions, in ascending order.
RECURSIVE Ascending(_)
Ascending(S) ==
    IF S = {} THEN <<>> ELSE Append(Ascending(S \ {SetMax(S)}), SetMax(S))

\* The paths, and the circles, whose label the map sends to a role in roles.
PathsWithRole(roles) == Ascending({i \in 1..Len(all_paths) : PathRole(i) \in roles})

CirclesWithRole(roles) == Ascending({c \in 1..Len(circles) : CircleRole(c) \in roles})

\* Every value a lookup in one of the maps can give.
Roles == {"None", "outline", "cutout", "hole", "keepout", "soldermask"}

\* C12: in explicit mode each list of the result holds exactly the paths or
\* circles whose label the map sends to that role, in input order: cutouts,
\* keepouts and soldermask openings by their role, the outline candidates
\* the paths mapped to "outline", the unclassified paths those with any
\* other or no entry (an absent label among them), the holes the circles
\* mapped to "hole" and the unclassified circles all other circles; the
\* keywords of a label and the position of an entity do not matter.
C12_RoutedByLookup ==
    (Classified /\ ExplicitMode) =>
        /\ result.cutouts = PathsWithRole({"cutout"})
        /\ result.keepouts = PathsWithRole({"keepout"})
        /\ result.soldermask_openings = PathsWithRole({"soldermask"})
        /\ outline_candidates = PathsWithRole({"outline"})
        /\ result.unclassified_paths =
               PathsWithRole(Roles \ {"outline", "cutout", "keepout", "soldermask"})
        /\ \A i \in 1..Len(all_paths) :
               PathRole(i) = "None" => i \in Elems(result.unclassified_paths)
        /\ result.holes = CirclesWithRole({"hole"})
        /\ result.unclassified_circles = CirclesWithRole(Roles \ {"hole"})

\* Explicit mode: a path on a slot layer the map lacks is unclassified, and a
\* circle inside the outline whose label is not mapped to "hole" is too.
C12_Witness ==
    /\ Classified
    /\ ExplicitMode
    /\ result.outline = 1
    /\ Len(all_paths) = 2
    /\ ClassifyLayer(all_paths[2].source_layer) = "cutout"
    /\ PathRole(2) = "None"
    /\ result.unclassified_paths = <<2>>
    /\ Len(circles) = 1
    /\ CircleInsideOutline(1)
    /\ result.unclassified_circles = <<1>>

-----------------------------------------------------------------------------
(* Loops with arcs, and their area *)

\* A number rat + pi * Pi with integer rat and pi (Pi is irrational, so the
\* pair is unique).
Num(r, p) == [rat |-> r, pi |-> p]

Plus(a, b) == Num(a.rat + b.rat, a.pi + b.pi)

Neg(a) == Num(-a.rat, -a.pi)

\* rat + pi * Pi > 0 decided with 333/106 < Pi < 355/113; FALSE also for the
\* few numbers these bounds cannot decide.
Positive(a) ==
    IF a.pi >= 0 THEN 106 * a.rat + 333 * a.pi > 0
    ELSE 113 * a.rat + 355 * a.pi > 0

Negative(a) == Positive(Neg(a))

\* _arc_segment_area: "sweep = (end - start) % 360; if sweep > 180: sweep -= 360"
Sweep(arc) ==
    LET sweep == (arc.end_angle - arc.start_angle) % 360
    IN  IF sweep > 180 THEN sweep - 360 ELSE sweep

\* _arc_segment_area times 360: r^2 * (sweep * Pi - 180 * sin(sweep)), for a
\* sweep of whole quarter turns.
ArcSegmentArea(arc) ==
    IF arc.radius = 0 THEN Num(0, 0)
    ELSE Num(-180 * arc.radius * arc.radius * SinDeg(Sweep(arc)),
             arc.radius * arc.radius * Sweep(arc))

\* The running sum of path_area after k segments, times 360.
RECURSIVE AreaUpTo(_, _)
AreaUpTo(segs, k) ==
    IF k = 0 THEN Num(0, 0)
    ELSE LET seg == segs[k]
         IN  IF IsArc(seg)
             THEN Plus(Plus(AreaUpTo(segs, k - 1),
                            Num(360 * (seg.start_point[1] * seg.end_point[2]
                                       - seg.end_point[1] * seg.start_point[2]), 0)),
                       ArcSegmentArea(seg))
             ELSE Plus(AreaUpTo(segs, k - 1),
                       Num(360 * (seg.start[1] * seg.end[2] - seg.end[1] * seg.start[2]), 0))

\* path_area of a path of lines and arcs, times 720 ("return area / 2.0"),
\* in (1/Unit mm)^2.
PathArea(path) == AreaUpTo(path.segments, Len(path.segments))

\* The point of the circle about c with radius r at angle a.
PointAt(c, r, a) == <<c[1] + r * CosDeg(a), c[2] + r * SinDeg(a)>>

\* The arc about c from angle sa counter-clockwise to angle ea, as
\* _extract_entities builds it from an ARC entity.
ArcCcw(c, r, sa, ea) ==
    ArcPathSegment(c, r, sa, ea, PointAt(c, r, sa), PointAt(c, r, ea))

\* Counter-clockwise loops: a quarter disc, a half disc, a slot with round
\* ends, a disc with a quarter cut out, and a square with a quarter-round
\* bite out of one corner (its arc is walked clockwise).
QuarterDisc(c, r) ==
    << LinePathSegment(c, PointAt(c, r, 0)), ArcCcw(c, r, 0, 90),
       LinePathSegment(PointAt(c, r, 90), c) >>

HalfDisc(c, r) ==
    << ArcCcw(c, r, 270, 90), LinePathSegment(PointAt(c, r, 90), PointAt(c, r, 270)) >>

Stadium(c, r) ==
    LET d == <<c[1] + 3 * r, c[2]>>
    IN  << LinePathSegment(PointAt(c, r, 270), PointAt(d, r, 270)), ArcCcw(d, r, 270, 90),
           LinePathSegment(PointAt(d, r, 90), PointAt(c, r, 90)), ArcCcw(c, r, 90, 270) >>

Pacman(c, r) ==
    << LinePathSegment(c, PointAt(c, r, 0)), ArcCcw(c, r, 0, 270),
       LinePathSegment(PointAt(c, r, 270), c) >>

Bitten(c, r) ==
    LET o == <<c[1] - 2 * r, c[2] - 2 * r>>
    IN  << LinePathSegment(o, <<c[1], o[2]>>),
           LinePathSegment(<<c[1], o[2]>>, PointAt(c, r, 270)),
           FlipSegment(ArcCcw(c, r, 180, 270)),
           LinePathSegment(PointAt(c, r, 180), <<o[1], c[2]>>),
           LinePathSegment(<<o[1], c[2]>>, o) >>

\* Largest radius of an arc, in mm.
MaxRadius == 2

\* The loop segs begun k segments later.
Rotated(segs, k) ==
    [i \in 1..Len(segs) |-> segs[((i + k - 1) % Len(segs)) + 1]]

CcwLoops ==
    LET centres == {<<0, 0>>, <<Unit, 2 * Unit>>}
        base == UNION {{QuarterDisc(c, r * Unit), HalfDisc(c, r * Unit),
                        Stadium(c, r * Unit), Pacman(c, r * Unit), Bitten(c, r * Unit),
                        Rect(c[1], c[2], c[1] + r * Unit, c[2] + 2 * r * Unit)} :
                           c \in centres, r \in 1..MaxRadius}
    IN  UNION {{Rotated(segs, k) : k \in 0..(Len(segs) - 1)} : segs \in base}

\* The loop of a path walked the other way round: the segments in reverse
\* order, each reversed by _flip_segment.
ReversedPath(path) == ClosedPath(Reversed(path.segments), path.source_layer)

\* A call of a geometry function with the arguments a.
FnStart(fn, a) ==
    /\ fpc = fn
    /\ arg = a
    /\ out = <<>>
    /\ AsmIdle
    /\ ClsIdle

AreaInit ==
    \E segs \in CcwLoops, turn \in {"ccw", "cw"} :
        FnStart("path_area",
                [path |-> ClosedPath(IF turn = "ccw" THEN segs ELSE Reversed(segs), <<"0">>),
                 turn |-> turn])

\* path_area of the loop.
ApplyPathArea ==
    /\ fpc = "path_area"
    /\ out' = <<PathArea(arg.path)>>
    /\ fpc' = "path_area_reversed"
    /\ UNCHANGED <<arg, asmVars, clsVars>>

\* path_area of the loop walked the other way round.
ApplyPathAreaReversed ==
    /\ fpc = "path_area_reversed"
    /\ out' = Append(out, PathArea(ReversedPath(arg.path)))
    /\ fpc' = "areas_returned"
    /\ UNCHANGED <<arg, asmVars, clsVars>>

AreaNext == ApplyPathArea \/ ApplyPathAreaReversed

SpecArea == AreaInit /\ [][AreaNext]_vars

\* C13: the area of a loop walked in reverse is the negative of the area of
\* the loop; a counter-clockwise loop has positive area and a clockwise loop
\* has negative area.
C13_ReverseNegates ==
    fpc = "areas_returned" =>
        /\ out[2] = Neg(out[1])
        /\ arg.turn = "ccw" => Positive(out[1]) /\ Negative(out[2])
        /\ arg.turn = "cw" => Negative(out[1]) /\ Positive(out[2])

-----------------------------------------------------------------------------
(* Points inside and outside polygons *)

\* The closed polygon through the corners vs, in their order.
Polygon(vs) ==
    [i \in 1..Len(vs) |-> LinePathSegment(vs[i], vs[(i % Len(vs)) + 1])]

\* Simple polygons, counter-clockwise: a square, a triangle, a diamond, an
\* L and an arrow head with a notch.
PolySquare == Polygon(<< <<0, 0>>, <<4, 0>>, <<4, 4>>, <<0, 4>> >>)

PolyTriangle == Polygon(<< <<0, 0>>, <<4, 0>>, <<2, 4>> >>)

PolyDiamond == Polygon(<< <<2, 0>>, <<4, 2>>, <<2, 4>>, <<0, 2>> >>)

PolyL == Polygon(<< <<0, 0>>, <<4, 0>>, <<4, 2>>, <<2, 2>>, <<2, 4>>, <<0, 4>> >>)

PolyArrow == Polygon(<< <<0, 0>>, <<2, 1>>, <<4, 0>>, <<2, 4>> >>)

\* Each polygon begun at any corner and walked either way round.
PipPolygons ==
    LET base == {PolySquare, PolyTriangle, PolyDiamond, PolyL, PolyArrow}
        rot  == UNION {{Rotated(segs, k) : k \in 0..(Len(segs) - 1)} : segs \in base}
    IN  rot \cup {Reversed(segs) : segs \in rot}

\* Test points run over the half-integer points of a square that reaches
\* half a step beyond 0 and beyond PipRange.
PipRange == 4

\* The test points, doubled.
PipPoints == (-1..(2 * PipRange + 1)) \X (-1..(2 * PipRange + 1))

\* The rectangle (0,0)-(10,0)-(10,10)-(0,10) with the points (5,5), (15,5)
\* and (-1,5) of TestPointInPath, or a polygon with a test point.
PipInit ==
    \/ \E p2 \in {<<10, 10>>, <<30, 10>>, <<-2, 10>>} :
           FnStart("point_in_path",
                   [point |-> p2, path |-> ClosedPath(Rect(0, 0, 10, 10), <<>>)])
    \/ \E segs \in PipPolygons, p2 \in PipPoints :
           FnStart("point_in_path", [point |-> p2, path |-> ClosedPath(segs, <<>>)])

\* point_in_path(point, path)
ApplyPointInPath ==
    /\ fpc = "point_in_path"
    /\ out' = PointInPath(arg.point, arg.path)
    /\ fpc' = "point_in_path_returned"
    /\ UNCHANGED <<arg, asmVars, clsVars>>

SpecPip == PipInit /\ [][ApplyPointInPath]_vars

\* The point p2/2 lies on the segment.
OnSegment(p2, seg) ==
    LET ax == 2 * seg.start[1] - p2[1]
        ay == 2 * seg.start[2] - p2[2]
        bx == 2 * seg.end[1] - p2[1]
        by == 2 * seg.end[2] - p2[2]
    IN  ax * by - ay * bx = 0 /\ ax * bx <= 0 /\ ay * by <= 0

OnBoundary(p2, path) ==
    \E k \in 1..Len(path.segments) : OnSegment(p2, path.segments[k])

\* The quarter of the plane, counted counter-clockwise from the +x axis, that
\* the non-zero vector (dx, dy) points into.
Quadrant(dx, dy) ==
    IF dx > 0 /\ dy >= 0 THEN 0
    ELSE IF dx <= 0 /\ dy > 0 THEN 1
    ELSE IF dx < 0 /\ dy <= 0 THEN 2
    ELSE 3

\* The quarter turns the segment makes about the point p2/2, which is not
\* on it: positive counter-clockwise.
QuarterTurns(p2, seg) ==
    LET ax == 2 * seg.start[1] - p2[1]
        ay == 2 * seg.start[2] - p2[2]
        bx == 2 * seg.end[1] - p2[1]
        by == 2 * seg.end[2] - p2[2]
        d  == (Quadrant(bx, by) - Quadrant(ax, ay)) % 4
    IN  IF d = 3 THEN -1
        ELSE IF d = 2 THEN (IF ax * by - ay * bx > 0 THEN 2 ELSE -2)
        ELSE d

RECURSIVE TurnsUpTo(_, _, _)
TurnsUpTo(p2, segs, k) ==
    IF k = 0 THEN 0 ELSE TurnsUpTo(p2, segs, k - 1) + QuarterTurns(p2, segs[k])

\* The loop winds around the point p2/2, which is not on it.
WindsAround(p2, path) == TurnsUpTo(p2, path.segments, Len(path.segments)) # 0

StrictlyInside(p2, path) == ~OnBoundary(p2, path) /\ WindsAround(p2, path)

StrictlyOutside(p2, path) == ~OnBoundary(p2, path) /\ ~WindsAround(p2, path)

\* C14: for a simple polygon of lines, point_in_path is True for every point
\* strictly inside it and False for every point strictly outside it, also
\* when the point is level with a corner.
C14_InsideOutside ==
    fpc = "point_in_path_returned" =>
        /\ StrictlyInside(arg.point, arg.path) => out = TRUE
        /\ StrictlyOutside(arg.point, arg.path) => out = FALSE

\* A point inside the arrow head, level with the tip of its notch, which the
\* ray towards +x passes through.
C14_Witness ==
    /\ fpc = "point_in_path_returned"
    /\ arg.path.segments = PolyArrow
    /\ arg.point = <<2, 2>>
    /\ StrictlyInside(arg.point, arg.path)
    /\ out = TRUE

-----------------------------------------------------------------------------
(* Bounding boxes of arcs *)

\* The grid points of the circle of radius 5 about the origin, by their
\* angle in whole degrees.
CirclePoints ==
    (0 :> <<5, 0>>) @@ (37 :> <<4, 3>>) @@ (53 :> <<3, 4>>) @@ (90 :> <<0, 5>>)
    @@ (127 :> <<-3, 4>>) @@ (143 :> <<-4, 3>>) @@ (180 :> <<-5, 0>>)
    @@ (217 :> <<-4, -3>>) @@ (233 :> <<-3, -4>>) @@ (270 :> <<0, -5>>)
    @@ (307 :> <<3, -4>>) @@ (323 :> <<4, -3>>)

\* Largest factor by which the circle of radius 5 is enlarged.
MaxScale == 2

\* The arc about c with radius 5 * k from angle sa to angle ea, the angles
\* written with the offsets so and eo (whole turns).
LatticeArc(c, k, sa, ea, so, eo) ==
    ArcPathSegment(c, 5 * k, sa + so, ea + eo,
                   <<c[1] + k * CirclePoints[sa][1], c[2] + k * CirclePoints[sa][2]>>,
                   <<c[1] + k * CirclePoints[ea][1], c[2] + k * CirclePoints[ea][2]>>)

\* The loop made of an arc and its chord.
ArcAndChord(arc) == << arc, LinePathSegment(arc.end_point, arc.start_point) >>

\* The arc from 315 to 45 degrees with radius 10, its end points rounded to
\* the grid.
ArcThroughZero == ArcPathSegment(<<0, 0>>, 10, 315, 45, <<7, -7>>, <<7, 7>>)

\* An arc with its chord, or one of the loops with several arcs.
BboxInit ==
    \/ \E c \in {<<0, 0>>, <<3, -2>>}, k \in 1..MaxScale,
          sa \in DOMAIN CirclePoints, ea \in DOMAIN CirclePoints,
          so \in {0, -360}, eo \in {0, -360} :
           FnStart("path_bounding_box",
                   ClosedPath(ArcAndChord(LatticeArc(c, k, sa, ea, so, eo)), <<>>))
    \/ FnStart("path_bounding_box", ClosedPath(ArcAndChord(ArcThroughZero), <<>>))
    \/ \E segs \in CcwLoops, turn \in {"ccw", "cw"} :
           FnStart("path_bounding_box",
                   ClosedPath(IF turn = "ccw" THEN segs ELSE Reversed(segs), <<>>))

\* path_bounding_box(path)
ApplyPathBoundingBox ==
    /\ fpc = "path_bounding_box"
    /\ out' = PathBoundingBox(arg)
    /\ fpc' = "path_bounding_box_returned"
    /\ UNCHANGED <<arg, asmVars, clsVars>>

SpecBbox == BboxInit /\ [][ApplyPathBoundingBox]_vars

\* The cardinal angle a lies in the counter-clockwise span of the arc: going
\* round from the start angle, a comes no later than the end angle.
InSpan(a, arc) ==
    (a - arc.start_angle) % 360 <= (arc.end_angle - arc.start_angle) % 360

\* What the box of a segment has to cover: its end points and, for an arc,
\* the points of its circle at the cardinal angles in its span.
Covered(seg) ==
    IF IsArc(seg)
    THEN {seg.start_point, seg.end_point}
         \cup {PointAt(seg.center, seg.radius, a) : a \in {a \in {0, 90, 180, 270} : InSpan(a, seg)}}
    ELSE {seg.start, seg.end}

CoveredBy(path) == UNION {Covered(path.segments[k]) : k \in 1..Len(path.segments)}

\* C15: the bounding box is the smallest box that covers, for every arc,
\* its two end points and the points of its circle at exactly those cardinal
\* angles that lie in its counter-clockwise span from start_angle to
\* end_angle.
C15_BboxCardinals ==
    fpc = "path_bounding_box_returned" =>
        LET pts == CoveredBy(arg)
        IN  out = << SetMin({p[1] : p \in pts}), SetMin({p[2] : p \in pts}),
                     SetMax({p[1] : p \in pts}), SetMax({p[2] : p \in pts}) >>

\* The arc from 315 to 45 degrees: the box reaches the point at angle 0,
\* beyond both end points, and no other cardinal point.
C15_Witness ==
    /\ fpc = "path_bounding_box_returned"
    /\ arg.segments[1] = ArcThroughZero
    /\ out = <<7, -7, 10, 7>>

-----------------------------------------------------------------------------
(* Polylines with bulges *)

\* A bulge value whole + tiny * 5e-11: whole is -1, 0 or 1 and tiny is a
\* small count of halves of the threshold 1e-10.
Bulge(w, t) == [whole |-> w, tiny |-> t]

\* abs(bulge) < 1e-10
IsStraight(bulge) == bulge.whole = 0 /\ Abs(bulge.tiny) < 2

\* math.degrees(math.atan2(dy, dx)) for a vector along an axis
Atan2Deg(dy, dx) ==
    IF dy = 0 THEN (IF dx >= 0 THEN 0 ELSE 180)
    ELSE IF dy > 0 THEN 90 ELSE -90

\* _bulge_to_arc for a chord of length zero, and for a bulge of 1 or -1 (a
\* half circle) over a chord of even length along an axis: the sagitta is
\* half the chord, the radius is half the chord and the centre is the middle
\* of the chord.
BulgeToArc(p1, p2, bulge) ==
    IF p1 = p2
    THEN ArcPathSegment(p1, 0, 0, 0, p1, p2)
    ELSE LET dx == p2[1] - p1[1]
             dy == p2[2] - p1[2]
             chord  == Abs(dx) + Abs(dy)
             radius == chord \div 2
             center == <<(p1[1] + p2[1]) \div 2, (p1[2] + p2[2]) \div 2>>
         IN  ArcPathSegment(center, radius,
                            Atan2Deg(p1[2] - center[2], p1[1] - center[1]),
                            Atan2Deg(p2[2] - center[2], p2[1] - center[1]),
                            p1, p2)

\* The inputs for which BulgeToArc is _bulge_to_arc: a chord of length zero,
\* or a bulge of 1 or -1 over a chord of even length along an axis.
BulgeToArcModelled(p1, p2, bulge) ==
    \/ p1 = p2
    \/ /\ bulge.whole # 0 /\ bulge.tiny = 0
       /\ p1[1] = p2[1] \/ p1[2] = p2[2]
       /\ (Abs(p2[1] - p1[1]) + Abs(p2[2] - p1[2])) % 2 = 0

\* A mutant of lwpolyline_to_closed_path: the edge from the last vertex back
\* to the first is left out.
LwpolylineOpen(points, bulges, layer) ==
    LET n == Len(points)
    IN  ClosedPath([i \in 1..(IF n = 0 THEN 0 ELSE n - 1) |->
                       LET p1 == points[i]
                           p2 == points[(i % n) + 1]
                           bulge == IF i <= Len(bulges) THEN bulges[i] ELSE Bulge(0, 0)
                       IN  IF IsStraight(bulge) THEN LinePathSegment(p1, p2)
                           ELSE BulgeToArc(p1, p2, bulge)],
                   layer)

\* lwpolyline_to_closed_path
LwpolylineToClosedPath(points, bulges, layer) ==
    LET n == Len(points)
    IN  ClosedPath([i \in 1..n |->
                       LET p1 == points[i]
                           p2 == points[(i % n) + 1]
                           bulge == IF i <= Len(bulges) THEN bulges[i] ELSE Bulge(0, 0)
                       IN  IF IsStraight(bulge) THEN LinePathSegment(p1, p2)
                           ELSE BulgeToArc(p1, p2, bulge)],
                   layer)

\* Largest number of vertices of a polyline.
MaxVerts == 3

PolyPoints == {0, 2} \X {0, 2}

\* 0, 5e-11, 1e-10, 1 and -1
Bulges == {Bulge(0, 0), Bulge(0, 1), Bulge(0, 2), Bulge(1, 0), Bulge(-1, 0)}

\* Up to MaxVerts vertices and at most as many bulges, on either of two
\* layers; an edge that is bulged is one of those BulgeToArc models.
PolyInit ==
    \E points \in SeqsUpTo(PolyPoints, MaxVerts), bulges \in SeqsUpTo(Bulges, MaxVerts),
       layer \in {L0, LEdge} :
        /\ Len(bulges) <= Len(points)
        /\ \A i \in 1..Len(bulges) :
               IsStraight(bulges[i])
               \/ BulgeToArcModelled(points[i], points[(i % Len(points)) + 1], bulges[i])
        /\ FnStart("lwpolyline_to_closed_path",
                   [points |-> points, bulges |-> bulges, layer |-> layer])

\* lwpolyline_to_closed_path(points, bulges, layer)
ApplyLwpolyline ==
    /\ fpc = "lwpolyline_to_closed_path"
    /\ out' = LwpolylineToClosedPath(arg.points, arg.bulges, arg.layer)
    /\ fpc' = "lwpolyline_returned"
    /\ UNCHANGED <<arg, asmVars, clsVars>>

SpecPoly == PolyInit /\ [][ApplyLwpolyline]_vars


\* C16: the path carries the given layer and has one segment per vertex,
\* the i-th from vertex i to the next vertex (the last back to the first);
\* the segment is a line exactly when its bulge is missing or below 1e-10 in
\* magnitude, and an arc otherwise.
C16_PolylineSegments ==
    fpc = "lwpolyline_returned" =>
        LET n == Len(arg.points)
        IN  /\ out.source_layer = arg.layer
            /\ Len(out.segments) = n
            /\ \A i \in 1..n :
                   /\ SegStart(out.segments[i]) = arg.points[i]
                   /\ SegEnd(out.segments[i]) = arg.points[(i % n) + 1]
                   /\ ~IsArc(out.segments[i]) <=>
                          \/ i > Len(arg.bulges)
                          \/ arg.bulges[i].whole = 0 /\ arg.bulges[i].tiny \in {-1, 0, 1}

\* Three vertices: a line for a bulge of 5e-11, a half circle for a bulge of
\* 1, and a line for the missing third bulge.
C16_Witness ==
    /\ fpc = "lwpolyline_returned"
    /\ Len(arg.points) = 3
    /\ arg.bulges = <<Bulge(0, 1), Bulge(1, 0)>>
    /\ ~IsArc(out.segments[1])
    /\ IsArc(out.segments[2]) /\ out.segments[2].radius = 1
    /\ ~IsArc(out.segments[3])
    /\ SegEnd(out.segments[3]) = arg.points[1]

-----------------------------------------------------------------------------
(* The unit resolver *)

\* A factor num/den.
Factor(n, d) == [num |-> n, den |-> d]

\* _INSUNITS_MAP: $INSUNITS code -> unit name ("None" for code 0).  The two
\* micro units are written "uin" and "um".
INSUNITS_MAP ==
    (0 :> "None") @@ (1 :> "in") @@ (2 :> "ft") @@ (3 :> "mi") @@ (4 :> "mm")
    @@ (5 :> "cm") @@ (6 :> "m") @@ (8 :> "uin") @@ (9 :> "um") @@ (10 :> "yd")

\* _UNIT_TO_MM: unit name -> millimetres per unit
UNIT_TO_MM ==
    ("mm" :> Factor(1, 1)) @@ ("cm" :> Factor(10, 1)) @@ ("m" :> Factor(1000, 1))
    @@ ("in" :> Factor(254, 10)) @@ ("ft" :> Factor(3048, 10))
    @@ ("mil" :> Factor(254, 10000)) @@ ("uin" :> Factor(254, 10000000))
    @@ ("um" :> Factor(1, 1000)) @@ ("yd" :> Factor(9144, 10))

\* A mutant of _detect_units: the header is not read.
DetectUnitsNone(insunits) == "None"

\* _detect_units: the unit name for the header's $INSUNITS, or "None"
DetectUnits(insunits) ==
    IF insunits \in DOMAIN INSUNITS_MAP THEN INSUNITS_MAP[insunits] ELSE "None"

\* "raw_extent = max(max(xs) - min(xs), max(ys) - min(ys))" when there are
\* coordinates, 0 otherwise
RawExtent(xs, ys) ==
    IF xs # <<>> /\ ys # <<>>
    THEN LET w == SetMax(Elems(xs)) - SetMin(Elems(xs))
             h == SetMax(Elems(ys)) - SetMin(Elems(ys))
         IN  IF w >= h THEN w ELSE h
    ELSE 0

\* A mutant of the sanity check: an extent of exactly 5000 mm is refused.
SaneExtentStrict(raw_extent, scale) ==
    (raw_extent * scale.num) \div scale.den < 5000

\* "raw_extent * scale <= 5000" for a whole raw_extent: the product rounded
\* up to a whole number is at most 5000.
SaneExtent(raw_extent, scale) ==
    (raw_extent * scale.num + scale.den - 1) \div scale.den <= 5000

\* A mutant of _resolve_unit_scale: a unit the document declares is
\* preferred to the forced unit.
ResolveUnitScaleDeclaredFirst(insunits, forced_unit, xs, ys) ==
    LET raw_extent == RawExtent(xs, ys)
        detected   == DetectUnits(insunits)
    IN  IF detected # "None" /\ detected \in DOMAIN UNIT_TO_MM
           /\ SaneExtent(raw_extent, UNIT_TO_MM[detected])
        THEN UNIT_TO_MM[detected]
        ELSE IF forced_unit \notin {"None", ""}
        THEN (IF forced_unit \in DOMAIN UNIT_TO_MM THEN UNIT_TO_MM[forced_unit]
              ELSE Factor(1, 1))
        ELSE IF raw_extent = 0 THEN Factor(1, 1)
        ELSE IF raw_extent > 500 THEN UNIT_TO_MM["mil"]
        ELSE Factor(1, 1)

\* _resolve_unit_scale; insunits is the document's $INSUNITS, xs and ys are
\* the coordinates _collect_entity_coords gathers from the model space.
ResolveUnitScale(insunits, forced_unit, xs, ys) ==
    IF forced_unit \notin {"None", ""}
    THEN (IF forced_unit \in DOMAIN UNIT_TO_MM THEN UNIT_TO_MM[forced_unit]
          ELSE Factor(1, 1))
    ELSE LET raw_extent == RawExtent(xs, ys)
             detected   == DetectUnits(insunits)
         IN  IF detected # "None" /\ detected \in DOMAIN UNIT_TO_MM
                /\ SaneExtent(raw_extent, UNIT_TO_MM[detected])
             THEN UNIT_TO_MM[detected]
             ELSE IF raw_extent = 0 THEN Factor(1, 1)
             ELSE IF raw_extent > 500 THEN UNIT_TO_MM["mil"]
             ELSE Factor(1, 1)

\* Raw extents around every threshold of the resolver.
Extents == {0, 1, 5, 6, 16, 17, 196, 197, 499, 500, 501, 5000, 5001, 100000}

\* Largest $INSUNITS code of a document.
MaxInsunits == 10

\* A document with any header code, any forced unit (none, the empty string,
\* a known or an unknown name) and no coordinates or coordinates spanning w
\* by h.
UnitInit ==
    \E insunits \in 0..MaxInsunits,
       forced_unit \in {"None", "", "furlong"} \cup DOMAIN UNIT_TO_MM,
       w \in Extents, h \in Extents, empty \in BOOLEAN :
        /\ empty => w = 0 /\ h = 0
        /\ h \in {0, w}
        /\ FnStart("_resolve_unit_scale",
                   [insunits |-> insunits, forced_unit |-> forced_unit,
                    xs |-> IF empty THEN <<>> ELSE <<-3, w - 3>>,
                    ys |-> IF empty THEN <<>> ELSE <<7, h + 7>>])

\* _resolve_unit_scale(doc, forced_unit, msp)
ApplyResolveUnitScale ==
    /\ fpc = "_resolve_unit_scale"
    /\ out' = ResolveUnitScale(arg.insunits, arg.forced_unit, arg.xs, arg.ys)
    /\ fpc' = "unit_scale_returned"
    /\ UNCHANGED <<arg, asmVars, clsVars>>

SpecUnit == UnitInit /\ [][ApplyResolveUnitScale]_vars

\* C17: with a forced unit the scale is that unit's millimetre factor (25.4
\* for "in"), whatever the document declares and whatever the extent is.
C17_ForcedUnitWins ==
    (fpc = "unit_scale_returned" /\ arg.forced_unit \in DOMAIN UNIT_TO_MM) =>
        /\ out = UNIT_TO_MM[arg.forced_unit]
        /\ arg.forced_unit = "in" => out = Factor(254, 10)

\* Forced inches on a large drawing declared in metres.
C17_Witness ==
    /\ fpc = "unit_scale_returned"
    /\ arg.forced_unit = "in"
    /\ arg.insunits = 6
    /\ RawExtent(arg.xs, arg.ys) = 5001
    /\ out = Factor(254, 10)

\* The millimetre factor of each $INSUNITS code that names a unit with a
\* factor, and the largest whole raw extent that the factor keeps within
\* 5000 mm.
DeclaredFactor ==
    (1 :> Factor(254, 10)) @@ (2 :> Factor(3048, 10)) @@ (4 :> Factor(1, 1))
    @@ (5 :> Factor(10, 1)) @@ (6 :> Factor(1000, 1)) @@ (8 :> Factor(254, 10000000))
    @@ (9 :> Factor(1, 1000)) @@ (10 :> Factor(9144, 10))

LargestSaneExtent ==
    (1 :> 196) @@ (2 :> 16) @@ (4 :> 5000) @@ (5 :> 500) @@ (6 :> 5)
    @@ (8 :> 196850393) @@ (9 :> 5000000) @@ (10 :> 5)

\* The document declares a unit with a factor and the extent, scaled by it,
\* is at most 5000 mm.
DeclaredAccepted ==
    /\ arg.insunits \in DOMAIN DeclaredFactor
    /\ RawExtent(arg.xs, arg.ys) <= LargestSaneExtent[arg.insunits]

\* C18: with no forced unit the scale is the declared unit's factor exactly
\* when a known unit is declared and the scaled extent is at most 5000;
\* otherwise, with geometry, it is 0.0254 when the raw extent exceeds 500 and
\* 1.0 when it does not; a drawing declared in metres with a raw extent above
\* 5 and at most 500 resolves to 1.0.
C18_DeclaredOrHeuristic ==
    (fpc = "unit_scale_returned" /\ arg.forced_unit = "None") =>
        LET raw_extent == RawExtent(arg.xs, arg.ys)
        IN  /\ DeclaredAccepted => out = DeclaredFactor[arg.insunits]
            /\ (arg.insunits \in DOMAIN DeclaredFactor /\ ~DeclaredAccepted) =>
                   out # DeclaredFactor[arg.insunits]
            /\ (~DeclaredAccepted /\ arg.xs # <<>>) =>
                   out = IF raw_extent > 500 THEN Factor(254, 10000) ELSE Factor(1, 1)
            /\ (arg.insunits = 6 /\ raw_extent > 5 /\ raw_extent <= 500) =>
                   out = Factor(1, 1)

\* A drawing declared in metres, 196 units wide: millimetres.
C18_Witness ==
    /\ fpc = "unit_scale_returned"
    /\ arg.forced_unit = "None"
    /\ arg.insunits = 6
    /\ RawExtent(arg.xs, arg.ys) = 196
    /\ out = Factor(1, 1)

\* No unit is forced and the model space holds no coordinates.
NoGeometry ==
    /\ fpc = "unit_scale_returned"
    /\ arg.forced_unit = "None"
    /\ arg.xs = <<>>
    /\ arg.ys = <<>>

\* C19: with no forced unit and no geometry at all the scale is 1.0, for
\* every unit the document may declare.
C19_NoGeometryMillimetres == NoGeometry => out = Factor(1, 1)

\* C19, amended: with no forced unit and no geometry at all the scale is the
\* factor of the unit the document declares, and 1.0 when it declares none
\* that has a factor.
C19_NoGeometryDeclaredElseMillimetres ==
    NoGeometry =>
        out = IF arg.insunits \in DOMAIN DeclaredFactor
              THEN DeclaredFactor[arg.insunits]
              ELSE Factor(1, 1)

\* An empty drawing declared in inches.
C19_Witness ==
    /\ NoGeometry
    /\ arg.insunits = 1
    /\ out = Factor(254, 10)

-----------------------------------------------------------------------------
(* Two runs of classify_entities on the same drawing *)

L1 == <<"1">>

\* Largest number of layers that carry lines in a drawing.
MaxLayers == 2

\* The sequences that list every member of the set S once: the orders in
\* which "for layer in all_layers" may visit the set all_layers.
Orders(S) ==
    {f \in [1..Cardinality(S) -> S] :
        \A a, b \in 1..Cardinality(S) : a # b => f[a] # f[b]}

\* "all_paths.extend(paths)" for the layers in the order given.
RECURSIVE Extended(_, _, _)
Extended(by_layer, order, k) ==
    IF k = 0 THEN <<>> ELSE Extended(by_layer, order, k - 1) \o by_layer[order[k]]

\* A drawing: for each layer that has lines, the closed paths
\* assemble_closed_paths makes of them (here one square each), the closed
\* polylines, the circles, and the layer_map argument.
DetInit ==
    \E ls \in SUBSET {L0, L1, LEdge, LSlot} :
        /\ Cardinality(ls) <= MaxLayers
        /\ \E shape \in [ls -> Shapes],
              polys \in {<<>>, <<ClosedPath(ShapeBig, LEdge)>>},
              cs \in CircleInputs, lm \in LayerMaps :
               /\ fpc = "run1"
               /\ arg = [layer_paths |-> [l \in ls |-> <<ClosedPath(shape[l], l)>>],
                         layer_lwpolys |-> polys, circles |-> cs, layer_map |-> lm]
               /\ out = <<>>
               /\ AsmIdle
               /\ ClsIdle

\* classify_entities from "# Assemble LINE/ARC segments into closed paths
\* (per layer)" to "# Classify everything": the set of layers is visited in
\* whatever order the set yields them.
DetAssemble ==
    /\ fpc \in {"run1", "run2"}
    /\ cpc = "idle"
    /\ \E order \in Orders(DOMAIN arg.layer_paths) :
           all_paths' = Extended(arg.layer_paths, order, Len(order)) \o arg.layer_lwpolys
    /\ circles' = arg.circles
    /\ layer_map' = arg.layer_map
    /\ cpc' = "dispatch"
    /\ ci' = 1
    /\ outline_candidates' = <<>>
    /\ unresolved_paths' = <<>>
    /\ unresolved_circles' = <<>>
    /\ result' = EmptyResult
    /\ UNCHANGED <<asmVars, fnVars>>

\* The result with the entities themselves in place of their indices: the
\* outline (a list of at most one path) and the members of every list.
ResultValues ==
    [outline |-> IF result.outline = 0 THEN <<>> ELSE <<all_paths[result.outline]>>,
     cutouts |-> {all_paths[i] : i \in Elems(result.cutouts)},
     keepouts |-> {all_paths[i] : i \in Elems(result.keepouts)},
     soldermask_openings |-> {all_paths[i] : i \in Elems(result.soldermask_openings)},
     unclassified_paths |-> {all_paths[i] : i \in Elems(result.unclassified_paths)},
     holes |-> {circles[c] : c \in Elems(result.holes)},
     unclassified_circles |-> {circles[c] : c \in Elems(result.unclassified_circles)}]

\* The first run has returned; its result is kept and the second run of
\* classify_entities on the same drawing begins.
DetSecondRun ==
    /\ fpc = "run1"
    /\ cpc = "done"
    /\ out' = ResultValues
    /\ fpc' = "run2"
    /\ cpc' = "idle"
    /\ all_paths' = <<>>
    /\ circles' = <<>>
    /\ layer_map' = NoMap
    /\ ci' = 1
    /\ outline_candidates' = <<>>
    /\ unresolved_paths' = <<>>
    /\ unresolved_circles' = <<>>
    /\ result' = EmptyResult
    /\ UNCHANGED <<arg, asmVars>>

DetNext == DetAssemble \/ DetSecondRun \/ ClsNext

SpecDet == DetInit /\ [][DetNext]_vars

\* C20: two runs of classify_entities on the same entities and the same
\* layer map give the same outline and the same members of every result
\* list, in whatever order each run visits the layers.
C20_Deterministic ==
    (fpc = "run2" /\ cpc = "done") => ResultValues = out

-----------------------------------------------------------------------------
(* The DXF writer: layers of the shapes of a placed package (dxf_writer.py) *)

Top == <<"T", "o", "p">>

Bottom == <<"B", "o", "t", "t", "o", "m">>

SILKSCREEN == <<"S", "I", "L", "K", "S", "C", "R", "E", "E", "N">>

COURTYARD == <<"C", "O", "U", "R", "T", "Y", "A", "R", "D">>

FINISH == <<"F", "I", "N", "I", "S", "H">>

Components == <<"C", "o", "m", "p", "o", "n", "e", "n", "t", "s">>

Drill == <<"D", "r", "i", "l", "l">>

\* f"Pads_{side}"
PadsLayer(side) == <<"P", "a", "d", "s", "_">> \o side

\* get_dxf_layer: "SILKSCREEN" and "COURTYARD" have their own spelling, any
\* other layer name is kept; the side follows an underscore.
GetDxfLayer(layer_name, side) ==
    CASE layer_name = SILKSCREEN -> <<"S", "i", "l", "k", "s", "c", "r", "e", "e", "n", "_">> \o side
      [] layer_name = COURTYARD -> <<"C", "o", "u", "r", "t", "y", "a", "r", "d", "_">> \o side
      [] OTHER -> layer_name \o <<"_">> \o side

\* _flip_side
FlipSide(side) == IF side = Top THEN Bottom ELSE Top

\* A resolve_side that never flips.
ResolveSideKeep(shape_side, inst_side) == shape_side

\* resolve_side
ResolveSide(shape_side, inst_side) ==
    IF inst_side = Bottom THEN FlipSide(shape_side) ELSE shape_side

\* The layer_filter argument: None, or a set of layer names.
NoFilter == [given |-> FALSE, layers |-> {}]

Filter(S) == [given |-> TRUE, layers |-> S]

\* "layer_filter is None or layer in layer_filter"
Passes(layer_filter, layer) == ~layer_filter.given \/ layer \in layer_filter.layers

\* An entity added to the modelspace: its DXF type, its layer, and src, the
\* list and position of the shape it was made from.
Entity(type, layer, list, k) == [type |-> type, layer |-> layer, src |-> <<list, k>>]

\* _emit_drill_hole
EmitDrillHole(hole_radius, list, k) ==
    IF hole_radius <= 0 THEN <<>> ELSE <<Entity("CIRCLE", Drill, list, k)>>

\* emit_pads
RECURSIVE EmitPads(_, _, _)
EmitPads(pads, side, k) ==
    IF k = 0 THEN <<>>
    ELSE EmitPads(pads, side, k - 1)
         \o <<Entity("CIRCLE", PadsLayer(side), "pads", k)>>
         \o EmitDrillHole(pads[k].hole_radius, "pads", k)

\* emit_rectangle_pads
RECURSIVE EmitRectanglePads(_, _, _)
EmitRectanglePads(pads, side, k) ==
    IF k = 0 THEN <<>>
    ELSE EmitRectanglePads(pads, side, k - 1)
         \o <<Entity("LWPOLYLINE", PadsLayer(side), "rectangle_pads", k)>>
         \o EmitDrillHole(pads[k].hole_radius, "rectangle_pads", k)

\* emit_polygon_pads: a pad of fewer than two points is skipped, drill hole
\* included.
RECURSIVE EmitPolygonPads(_, _, _)
EmitPolygonPads(pads, side, k) ==
    IF k = 0 THEN <<>>
    ELSE EmitPolygonPads(pads, side, k - 1)
         \o (IF pads[k].points < 2 THEN <<>>
             ELSE <<Entity("LWPOLYLINE", PadsLayer(side), "polygon_pads", k)>>
                  \o EmitDrillHole(pads[k].hole_radius, "polygon_pads", k))

\* emit_polygon: nothing is added for fewer than two points.
EmitPolygon(points, layer, list, k) ==
    IF points < 2 THEN <<>> ELSE <<Entity("LWPOLYLINE", layer, list, k)>>

\* emit_instance, "for poly in pkg.polygons"
RECURSIVE EmitPackagePolygons(_, _, _, _)
EmitPackagePolygons(polys, inst_side, layer_filter, k) ==
    IF k = 0 THEN <<>>
    ELSE LET resolved_side == ResolveSide(polys[k].side, inst_side)
             layer == GetDxfLayer(polys[k].layer_name, resolved_side)
         IN  EmitPackagePolygons(polys, inst_side, layer_filter, k - 1)
             \o (IF Passes(layer_filter, layer)
                 THEN EmitPolygon(polys[k].points, layer, "polygons", k)
                 ELSE <<>>)

\* emit_instance, "for line_shape in pkg.lines" (emit_line_shape with the
\* layer given)
RECURSIVE EmitPackageLines(_, _, _, _)
EmitPackageLines(lines, inst_side, layer_filter, k) ==
    IF k = 0 THEN <<>>
    ELSE LET resolved_side == ResolveSide(lines[k].side, inst_side)
             layer == GetDxfLayer(lines[k].layer_name, resolved_side)
         IN  EmitPackageLines(lines, inst_side, layer_filter, k - 1)
             \o (IF Passes(layer_filter, layer)
                 THEN <<Entity("LWPOLYLINE", layer, "lines", k)>>
                 ELSE <<>>)

\* emit_instance, the instance-level shapes: they are in board coordinates
\* and keep their side.
RECURSIVE EmitInstanceShapes(_, _, _, _)
EmitInstanceShapes(shapes, list, layer_filter, k) ==
    IF k = 0 THEN <<>>
    ELSE LET layer == GetDxfLayer(shapes[k].layer_name, shapes[k].side)
         IN  EmitInstanceShapes(shapes, list, layer_filter, k - 1)
             \o (IF ~Passes(layer_filter, layer) THEN <<>>
                 ELSE IF list = "shapes_text" THEN <<Entity("TEXT", layer, list, k)>>
                 ELSE IF list = "shapes_polygon"
                      THEN EmitPolygon(shapes[k].points, layer, list, k)
                 ELSE <<Entity("LWPOLYLINE", layer, list, k)>>)

\* emit_instance: the entities added to the modelspace, in order.  packages
\* maps package names to packages; an instance of an unknown package adds
\* nothing.
EmitInstance(inst, packages, layer_filter) ==
    IF inst.package_name \notin DOMAIN packages THEN <<>>
    ELSE LET pkg == packages[inst.package_name]
             marker == Passes(layer_filter, Components)
         IN  (IF marker THEN <<Entity("POINT", Components, "instance", 1)>> ELSE <<>>)
             \o (IF Passes(layer_filter, PadsLayer(inst.side))
                    \/ Drill \in layer_filter.layers
                 THEN EmitPads(pkg.pads, inst.side, Len(pkg.pads))
                      \o EmitRectanglePads(pkg.rectangle_pads, inst.side,
                                           Len(pkg.rectangle_pads))
                      \o EmitPolygonPads(pkg.polygon_pads, inst.side,
                                         Len(pkg.polygon_pads))
                 ELSE <<>>)
             \o EmitPackagePolygons(pkg.polygons, inst.side, layer_filter,
                                    Len(pkg.polygons))
             \o EmitPackageLines(pkg.lines, inst.side, layer_filter, Len(pkg.lines))
             \o (IF marker /\ inst.designator_text
                 THEN <<Entity("TEXT", Components, "designator_text", 1)>> ELSE <<>>)
             \o EmitInstanceShapes(inst.shapes_text, "shapes_text", layer_filter,
                                   Len(inst.shapes_text))
             \o EmitInstanceShapes(inst.shapes_polygon, "shapes_polygon", layer_filter,
                                   Len(inst.shapes_polygon))
             \o EmitInstanceShapes(inst.shapes_line, "shapes_line", layer_filter,
                                   Len(inst.shapes_line))

Sides == {Top, Bottom}

\* Largest number of polygons of a package.
MaxShapes == 2

\* points is the number of points of the polygon.
PolygonShape(points, layer_name, side) ==
    [points |-> points, layer_name |-> layer_name, side |-> side]

LineShape(layer_name, side) == [layer_name |-> layer_name, side |-> side]

ShapeLayerNames == {SILKSCREEN, COURTYARD, FINISH}

PolygonShapes ==
    {PolygonShape(4, n, s) : n \in ShapeLayerNames, s \in Sides}
        \cup {PolygonShape(1, SILKSCREEN, Top)}

LineShapes == {LineShape(n, s) : n \in ShapeLayerNames, s \in Sides}

\* The package of the tests: two round pads, one of them drilled, with the
\* polygons and lines given.
Package(polys, lines) ==
    [pads |-> <<[hole_radius |-> 0], [hole_radius |-> 1]>>,
     rectangle_pads |-> <<[hole_radius |-> 1]>>,
     polygon_pads |-> <<[points |-> 1, hole_radius |-> 1], [points |-> 3, hole_radius |-> 0]>>,
     polygons |-> polys,
     lines |-> lines]

Instance(package_name, side, shapes) ==
    [package_name |-> package_name, side |-> side, designator_text |-> shapes # <<>>,
     shapes_text |-> shapes, shapes_polygon |-> shapes, shapes_line |-> shapes]

SideLayers(side) ==
    {PadsLayer(side)} \cup {GetDxfLayer(n, side) : n \in ShapeLayerNames}

\* The layer sets of the tests, no filter, and a filter of other layers.
LayerFilters ==
    {NoFilter, Filter(SideLayers(Top)), Filter(SideLayers(Bottom)),
     Filter({Drill, Components})}

EmitInit ==
    \E polys \in SeqsUpTo(PolygonShapes, MaxShapes), lines \in SeqsUpTo(LineShapes, 1),
       side \in Sides, name \in {"U", "V"}, layer_filter \in LayerFilters,
       shapes \in {<<>>, <<PolygonShape(4, SILKSCREEN, Top)>>} :
        FnStart("emit_instance",
                [inst |-> Instance(name, side, shapes),
                 packages |-> [n \in {"U"} |-> Package(polys, lines)],
                 layer_filter |-> layer_filter])

ApplyEmitInstance ==
    /\ fpc = "emit_instance"
    /\ fpc' = "done"
    /\ out' = EmitInstance(arg.inst, arg.packages, arg.layer_filter)
    /\ UNCHANGED <<arg, asmVars, clsVars>>

SpecEmit == EmitInit /\ [][ApplyEmitInstance]_vars

Emitted == fpc = "done" /\ "inst" \in DOMAIN arg

\* The other side of the board, by name.
Opposite(side) == CASE side = Top -> Bottom [] side = Bottom -> Top

\* The shape of the package an entity was made from.
PackageShape(e) ==
    IF e.src[1] = "polygons"
    THEN arg.packages[arg.inst.package_name].polygons[e.src[2]]
    ELSE arg.packages[arg.inst.package_name].lines[e.src[2]]

EndsWith(text, tail) ==
    /\ Len(text) >= Len(tail)
    /\ SubSeq(text, Len(text) - Len(tail) + 1, Len(text)) = tail

\* C21: every entity made from a polygon or a line of the package lies on
\* the layer of the shape's own side when the instance is on Top and on the
\* layer of the opposite side when the instance is on Bottom; resolving the
\* side of a shape twice for a Bottom instance gives its side back.
C21_BottomInstanceFlips ==
    Emitted =>
        \A k \in 1..Len(out) :
            out[k].src[1] \in {"polygons", "lines"} =>
                LET shape == PackageShape(out[k])
                    side == IF arg.inst.side = Bottom THEN Opposite(shape.side)
                            ELSE shape.side
                IN  /\ out[k].layer = GetDxfLayer(shape.layer_name, side)
                    /\ EndsWith(out[k].layer, <<"_">> \o side)
                    /\ ResolveSide(ResolveSide(shape.side, Bottom), Bottom) = shape.side

\* A Bottom instance whose Top silkscreen polygon and Bottom courtyard line
\* have both been emitted.
C21_Witness ==
    /\ Emitted
    /\ arg.inst.side = Bottom
    /\ \E a, b \in 1..Len(out) :
          /\ out[a].src[1] = "polygons"
          /\ PackageShape(out[a]).side = Top
          /\ out[a].layer = <<"S", "i", "l", "k", "s", "c", "r", "e", "e", "n", "_", "B", "o", "t", "t", "o", "m">>
          /\ out[b].src[1] = "lines"
          /\ PackageShape(out[b]).side = Bottom
          /\ out[b].layer = <<"C", "o", "u", "r", "t", "y", "a", "r", "d", "_", "T", "o", "p">>

-----------------------------------------------------------------------------
(* The used markers after a dead end *)

\* C22: when an attempt ends at a dead end, the used markers are what they
\* were when the attempt began (every segment of the attempt is unmarked
\* again and no segment of an earlier loop is), and the attempt adds no path.
C22_DeadEndRestoresMarkers ==
    last \in {"deadend", "raised"} => used = used0

-----------------------------------------------------------------------------
(* Outline candidates that are not selected *)

\* C23: every outline candidate that is not selected as the outline is in
\* unclassified_paths.
C23_OthersDemoted ==
    Classified =>
        \A i \in Candidates :
            i # result.outline => i \in Elems(result.unclassified_paths)

-----------------------------------------------------------------------------
(* Tolerances whose inverse is not a whole number *)

\* Tolerances of 0.25, 0.5, 0.75, 1 and 2 mm.
Tolerances == {Unit \div 4, TolHalf, 3 * (Unit \div 4), TolOne, 2 * Unit}

\* The triangle with joints slightly off, under each tolerance.
GridInit ==
    \E off \in [1..3 -> 0..MaxOff], t \in Tolerances : AsmStart(TriEdges(off), t)

SpecGrid == GridInit /\ [][AsmNext]_vars

\* round(x / tolerance), round(y / tolerance)
RoundedCell(p) == <<RoundHalfEven(p[1], tolU), RoundHalfEven(p[2], tolU)>>

\* Entry m is listed in the adjacency under the grid cell of entry k: the
\* two endpoints are treated as the same point.
SamePoint(k, m) ==
    m \in Adjacency(segments, grid_inv, PointKey(EntryPoint(segments, k), grid_inv))

\* C24: two endpoints are treated as the same point if and only if
\* round(x / tolerance) and round(y / tolerance) agree for both; so endpoints
\* whose x or y differ by more than the tolerance are never matched.
C24_SamePointIffRoundedAgree ==
    pc # "idle" =>
        \A k, m \in 1..(2 * Len(segments)) :
            LET p == EntryPoint(segments, k)
                q == EntryPoint(segments, m)
            IN  /\ SamePoint(k, m) <=> RoundedCell(p) = RoundedCell(q)
                /\ SamePoint(k, m) =>
                       Abs(p[1] - q[1]) <= tolU /\ Abs(p[2] - q[2]) <= tolU

-----------------------------------------------------------------------------
(* The mode of the classifier *)

\* The positions inside _classify_by_layer_map.
MapPositions == {"map_paths", "map_circles"}

\* The classifier called is running.
Classifying == cpc \notin {"idle", "dispatch", "done"}

\* C25: _classify_by_layer_map runs whenever a layer map is supplied, also
\* an empty one, and _classify_by_heuristics only when none is; a supplied
\* map routes to each role the entities of the layers it names with that role
\* and nothing else.
C25_ModeByPresence ==
    /\ Classifying => (cpc \in MapPositions <=> layer_map.given)
    /\ (Classified /\ layer_map.given) =>
           /\ result.cutouts = PathsWithRole({"cutout"})
           /\ result.keepouts = PathsWithRole({"keepout"})
           /\ result.soldermask_openings = PathsWithRole({"soldermask"})
           /\ result.holes = CirclesWithRole({"hole"})

-----------------------------------------------------------------------------
(* Bounding boxes of assembled loops with arcs *)

\* The lines of a loop, as (start, end) pairs in any direction, and its
\* arcs as ARC entities give them: counter-clockwise from start_angle.
ArcLoops ==
    UNION {{QuarterDisc(c, r * Unit), HalfDisc(c, r * Unit),
            Stadium(c, r * Unit), Pacman(c, r * Unit)} :
               c \in {<<0, 0>>, <<Unit, 2 * Unit>>}, r \in 1..MaxRadius}

LinesOf(segs) == SelectSeq(segs, LAMBDA seg : ~IsArc(seg))

ArcsOf(segs) == SelectSeq(segs, IsArc)

\* "segments.append(LinePathSegment(...)) for the lines; segments.extend(arcs)"
SegmentList(lines, arcs) == lines \o arcs

\* The first call: assemble_closed_paths(lines, arcs, tolerance=1.0).
ArcAsmInit ==
    \E loop \in ArcLoops :
        \E flips \in [1..Len(LinesOf(loop)) -> BOOLEAN] :
            LET lines == Shuffled(LinesOf(loop), [i \in 1..Len(LinesOf(loop)) |-> i], flips)
            IN  /\ pc = "outer"
                /\ AsmFields(SegmentList(lines, ArcsOf(loop)), TolOne)
                /\ ClsIdle
                /\ fpc = "first"
                /\ arg = [lines |-> lines, arcs |-> ArcsOf(loop)]
                /\ out = <<>>

\* path_bounding_box of every path returned.
Boxes == [k \in 1..Len(paths) |-> PathBoundingBox(paths[k])]

\* The first call has returned and its paths are measured; the same lines
\* and arcs are handed to assemble_closed_paths again in another order.
ArcAsmAgain ==
    /\ pc = "done"
    /\ fpc = "first"
    /\ out' = Boxes
    /\ fpc' = "second"
    /\ \E lp \in Perms(Len(arg.lines)), ap \in Perms(Len(arg.arcs)) :
          LET segs == SegmentList([i \in 1..Len(arg.lines) |-> arg.lines[lp[i]]],
                                  [i \in 1..Len(arg.arcs) |-> arg.arcs[ap[i]]])
          IN  /\ segments' = segs
              /\ used' = [i \in 1..Len(segs) |-> FALSE]
              /\ used0' = [i \in 1..Len(segs) |-> FALSE]
    /\ pc' = "outer"
    /\ paths' = <<>>
    /\ start_idx' = 1
    /\ chain' = <<>>
    /\ chain_idx' = <<>>
    /\ current_key' = <<0, 0>>
    /\ loop_start_key' = <<0, 0>>
    /\ step' = 0
    /\ last' = "none"
    /\ attempts' = <<>>
    /\ ticks' = 0
    /\ UNCHANGED <<tolU, arg, clsVars>>

\* The second call has returned and its paths are measured.
ArcAsmMeasure ==
    /\ pc = "done"
    /\ fpc = "second"
    /\ out' = [first |-> out, second |-> Boxes]
    /\ fpc' = "done"
    /\ UNCHANGED <<arg, asmVars, clsVars>>

ArcAsmNext == AsmNext \/ ArcAsmAgain \/ ArcAsmMeasure

SpecArcAsm == ArcAsmInit /\ [][ArcAsmNext]_vars

\* C26: the lines and arcs of one simple closed loop give a path with the
\* same bounding box in whatever order they are handed to the assembler.
C26_BoxIndependentOfOrder ==
    (fpc = "done" /\ "first" \in DOMAIN out) => out.first = out.second

-----------------------------------------------------------------------------
(* The arc an ArcPathSegment denotes, as each metric reads it *)

\* _ray_crosses_arc: "num_steps = max(8, int(abs(end_angle - start_angle) / 5))"
NumSteps(arc) ==
    LET n == Abs(arc.end_angle - arc.start_angle) \div 5
    IN  IF n > 8 THEN n ELSE 8

\* _ray_crosses_arc: "sweep = arc.end_angle - arc.start_angle"
RaySweep(arc) == arc.end_angle - arc.start_angle

\* _ray_crosses_arc: the angles of the vertices of the polyline that stands
\* for the arc, in degrees times num_steps.
RayAngles(arc) ==
    [i \in 1..(NumSteps(arc) + 1) |->
        arc.start_angle * NumSteps(arc) + (i - 1) * RaySweep(arc)]

\* _arc_bbox_extend: the cardinal angles whose points it appends.
BboxCardinals(arc) ==
    {a \in {0, 90, 180, 270} :
        AngleInArc(a, arc.start_angle % 360, arc.end_angle % 360)}

\* An arc between two lattice points of a circle, as drawn or reversed by
\* _flip_segment.
ArcInit ==
    \E c \in {<<0, 0>>, <<3, -2>>}, k \in 1..MaxScale,
       sa \in DOMAIN CirclePoints, ea \in DOMAIN CirclePoints, flipped \in BOOLEAN :
        FnStart("arc",
                IF flipped THEN FlipSegment(LatticeArc(c, k, sa, ea, 0, 0))
                ELSE LatticeArc(c, k, sa, ea, 0, 0))

\* The metrics read so far; out maps "box", "area" and "ray" to them.
Measured == IF out = <<>> THEN {} ELSE DOMAIN out

With(key, value) == IF out = <<>> THEN (key :> value) ELSE out @@ (key :> value)

AfterMeasuring(key) ==
    IF Measured \cup {key} = {"box", "area", "ray"} THEN "arc_measured" ELSE fpc

\* _arc_bbox_extend(arc, xs, ys)
ApplyArcBboxExtend ==
    /\ fpc = "arc"
    /\ "box" \notin Measured
    /\ out' = With("box", BboxCardinals(arg))
    /\ fpc' = AfterMeasuring("box")
    /\ UNCHANGED <<arg, asmVars, clsVars>>

\* _arc_segment_area(arc), as far as its sweep
ApplyArcSegmentArea ==
    /\ fpc = "arc"
    /\ "area" \notin Measured
    /\ out' = With("area", Sweep(arg))
    /\ fpc' = AfterMeasuring("area")
    /\ UNCHANGED <<arg, asmVars, clsVars>>

\* _ray_crosses_arc(px, py, arc), as far as its list of angles
ApplyRayCrossesArc ==
    /\ fpc = "arc"
    /\ "ray" \notin Measured
    /\ out' = With("ray", RayAngles(arg))
    /\ fpc' = AfterMeasuring("ray")
    /\ UNCHANGED <<arg, asmVars, clsVars>>

ArcNext == ApplyArcBboxExtend \/ ApplyArcSegmentArea \/ ApplyRayCrossesArc

SpecArc == ArcInit /\ [][ArcNext]_vars

\* The cardinal angles passed when turning from angle start by sweep degrees
\* (counter-clockwise if positive, clockwise if negative).
Passed(start, sweep) ==
    {a \in {0, 90, 180, 270} :
        IF sweep >= 0 THEN (a - start) % 360 <= sweep
        ELSE (start - a) % 360 <= -sweep}

\* C27: for every arc the bounding box, path_area and point_in_path read the
\* same arc of the circle: the sweep of path_area and the sweep of
\* point_in_path are the counter-clockwise turn from start_angle to
\* end_angle that the bounding box covers.
C27_MetricsAgree ==
    fpc = "arc_measured" =>
        LET n == NumSteps(arg)
            ray == (out.ray[n + 1] - out.ray[1]) \div n
        IN  /\ out.area = ray
            /\ ray >= 0
            /\ out.box = Passed(arg.start_angle, ray)
            /\ out.box = Passed(arg.start_angle, out.area)

-----------------------------------------------------------------------------
(* The step bound of _walk_loop *)

\* C28: the exit below the for loop of _walk_loop ("exceeded max steps") is
\* never taken: while the walk runs, fewer iterations are done than the bound
\* allows, each one having added a segment to the chain, so a result of None
\* comes from a dead end only and a loop of all the segments is returned.
C28_StepBoundNeverCuts ==
    /\ last # "exceeded"
    /\ pc = "walk" => step < max_steps /\ step = Len(chain) - 1
    /\ (pc = "walk" /\ Len(chain) = Len(segments)) => Closes \/ DeadEnd

\* A loop of all the segments, three or more, has been returned in the last
\* iteration the bound allows.
C28_Witness ==
    /\ last = "closed"
    /\ Len(segments) >= 3
    /\ Len(chain) = Len(segments)
    /\ step = max_steps - 1
    /\ Len(paths) = 1

-----------------------------------------------------------------------------
(* Paths on layers named for a role other than outline *)

\* The role _classify_layer gives the layer of path i.
KeywordRole(i) == ClassifyLayer(all_paths[i].source_layer)

\* C29: in heuristic mode a path whose layer name has a keyword of cutout,
\* hole, keepout, soldermask or annotation is never the outline, and is a
\* cutout only if the keyword is one of cutout.
C29_KeywordPathsKeepRole ==
    (Classified /\ ~ExplicitMode) =>
        \A i \in 1..Len(all_paths) :
            KeywordRole(i) \in {"cutout", "hole", "keepout", "soldermask", "annotation"} =>
                /\ result.outline # i
                /\ i \in Elems(result.cutouts) => KeywordRole(i) = "cutout"

-----------------------------------------------------------------------------
(* _classify_layer on names made of several words *)

\* The most words a layer name is made of.
MaxWords == 2

\* str.upper() on one character of the words below: a letter of LowerChars
\* becomes its capital, a digit or a separator stays.
UpperChar(c) ==
    IF \E k \in 1..Len(LowerChars) : LowerChars[k] = c
    THEN UpperChars[CHOOSE k \in 1..Len(LowerChars) : LowerChars[k] = c]
    ELSE c

Upper(name) == [k \in 1..Len(name) |-> UpperChar(name[k])]

\* Every pattern of _LAYER_PATTERNS.
Keywords ==
    UNION {{LAYER_PATTERNS[r].patterns[k] : k \in 1..Len(LAYER_PATTERNS[r].patterns)} :
              r \in 1..Len(LAYER_PATTERNS)}

\* Words that hold no pattern.
Fillers == {<<"0">>, <<"t", "o", "p">>, <<"c", "ô", "t", "é">>}

RECURSIVE Joined(_, _)
\* sep.join(words)
Joined(words, sep) ==
    IF Len(words) = 0 THEN <<>>
    ELSE IF Len(words) = 1 THEN words[1]
    ELSE words[1] \o sep \o Joined(Tail(words), sep)

\* Layer names: one to MaxWords words, keywords or fillers, joined with a
\* separator, written in lower case or in capitals.
LayerInit ==
    \E n \in 1..MaxWords :
        \E words \in [1..n -> Keywords \cup Fillers],
           sep \in {<<".">>, <<"_">>, <<" ">>},
           capitals \in BOOLEAN :
            FnStart("classify_layer",
                    [layer_name |-> IF capitals THEN Upper(Joined(words, sep))
                                    ELSE Joined(words, sep),
                     words |-> words])

\* _classify_layer(layer_name)
ApplyClassifyLayer ==
    /\ fpc = "classify_layer"
    /\ out' = <<ClassifyLayer(arg.layer_name)>>
    /\ fpc' = "role_returned"
    /\ UNCHANGED <<arg, asmVars, clsVars>>

\* A caller that reads the role.
ReadRole ==
    /\ fpc = "role_returned"
    /\ fpc' = "done"
    /\ UNCHANGED <<arg, out, asmVars, clsVars>>

LayerNext == ApplyClassifyLayer \/ ReadRole

SpecLayer == LayerInit /\ [][LayerNext]_vars

\* The fixed order of the roles.
RoleOrder == <<"outline", "cutout", "hole", "keepout", "soldermask", "annotation">>

\* The place in RoleOrder of the role whose pattern list holds the keyword.
RankOfKeyword(word) ==
    CHOOSE r \in 1..Len(RoleOrder) :
        \E q \in 1..Len(LAYER_PATTERNS) :
            /\ LAYER_PATTERNS[q].role = RoleOrder[r]
            /\ \E k \in 1..Len(LAYER_PATTERNS[q].patterns) :
                   LAYER_PATTERNS[q].patterns[k] = word

\* The places in RoleOrder of the roles of the keywords among the words.
RanksOf(words) ==
    {RankOfKeyword(words[k]) : k \in {j \in 1..Len(words) : words[j] \in Keywords}}

\* C30: a layer name with keywords of several roles resolves to one role,
\* the first of them in the order outline, cutout, hole, keepout,
\* soldermask, annotation, wherever the keywords stand in the name; a name
\* with no keyword resolves to no role.
C30_FirstRoleInFixedOrder ==
    fpc = "role_returned" =>
        /\ Len(out) = 1
        /\ RanksOf(arg.words) = {} => out[1] = "None"
        /\ RanksOf(arg.words) # {} => out[1] = RoleOrder[Lowest(RanksOf(arg.words))]

\* A name of two keywords of different roles, the keyword of the later role
\* written first, has been resolved to the earlier role.
C30_Witness ==
    /\ fpc = "role_returned"
    /\ Len(arg.words) = 2
    /\ arg.words[1] \in Keywords
    /\ arg.words[2] \in Keywords
    /\ RankOfKeyword(arg.words[2]) < RankOfKeyword(arg.words[1])
    /\ out[1] = RoleOrder[RankOfKeyword(arg.words[2])]

====
